---- MODULE Spec2Model ----
(***************************************************************************)
(* Message routing and streaming delivery of cc-discord.                   *)
(*                                                                         *)
(*   Spec        ClaudeCodeAdapter: query / queryStream with the           *)
(*               session-loss retry, called directly.                      *)
(*   SpecActor   the same with the actor as the caller.                    *)
(*   SpecDiscord DiscordAdapter's handling of the stream events of a turn  *)
(*               and of the turn's synchronous response.                   *)
(*                                                                         *)
(* Strings are sequences of tokens: concatenation is \o, the empty string  *)
(* is << >>.                                                               *)
(***************************************************************************)
EXTENDS Integers, Sequences, FiniteSets, TLC

\* ------------------------------------------------------------------ bounds

\* Engine messages delivered over one logical call (both attempts together).
MaxMsgs == 2
\* Logical calls made one after the other on the same adapter.
MaxCalls == 2
\* stream-partial events of one turn.
MaxPartials == 3

\* ------------------------------------------------------------- vocabulary

\* An undefined session id (config.sessionId / currentSessionId unset).
NoSession == "undefined"
\* The session id given on the command line (--resume).
ConfiguredSid == "s0"
\* An undefined channel id.
NoChannel == "undefined"

\* The messages the engine stream may carry (types.ts ClaudeMessage as the
\* adapter reads it): text is the assistant's text, toolUse a tool_use block
\* of an assistant message, toolResult a string tool_result of a user message.
EngineMessage(type, sid, text, toolUse, toolResult) ==
    [type |-> type, session_id |-> sid, text |-> text,
     toolUse |-> toolUse, toolResult |-> toolResult]

EngineMessages ==
    {EngineMessage("init", "s1", << >>, FALSE, << >>),
     EngineMessage("result", "s2", << >>, FALSE, << >>),
     EngineMessage("assistant", NoSession, <<"a">>, FALSE, << >>),
     EngineMessage("assistant", NoSession, << >>, TRUE, << >>),
     EngineMessage("user", NoSession, << >>, FALSE, <<"r">>)}

\* What the engine may throw: name and message of the thrown value; isError is
\* false for a thrown value that is no Error instance.
EngineErrors ==
    {[isError |-> TRUE,  name |-> "Error",      message |-> "No conversation found with session ID: s0"],
     [isError |-> TRUE,  name |-> "Error",      message |-> "SESSION NOT FOUND"],
     [isError |-> TRUE,  name |-> "Error",      message |-> "Network error: Connection refused"],
     [isError |-> TRUE,  name |-> "AbortError", message |-> "The operation was aborted"],
     [isError |-> FALSE, name |-> "",           message |-> "session not found"]}

NoError == [isError |-> FALSE, name |-> "", message |-> ""]

\* String.prototype.toLowerCase on the messages above.
ToLowerCase(m) ==
    CASE m = "No conversation found with session ID: s0" -> "no conversation found with session id: s0"
      [] m = "SESSION NOT FOUND" -> "session not found"
      [] m = "Network error: Connection refused" -> "network error: connection refused"
      [] m = "The operation was aborted" -> "the operation was aborted"
      [] OTHER -> m

\* String.prototype.includes(phrase) on the lower-cased messages above.
Includes(m, phrase) ==
    CASE m = "no conversation found with session id: s0" ->
            phrase \in {"no conversation found with session id"}
      [] m = "session not found" -> phrase \in {"session not found", "not found"}
      [] OTHER -> FALSE

\* ------------------------------------------------------------------ state

VARIABLES
    config,            \* the adapter's config: sessionId, continueSession
    streamingEnabled,  \* config.streamingEnabled: "unset", "true" or "false"
    busInjected,       \* the actor's bus was set with setMessageBus
    emitFailure,       \* the type of the events on which emit of that bus rejects
    listeners,         \* SimpleMessageBus.listeners
    isFirstQuery,      \* ClaudeCodeAdapter.isFirstQuery
    currentSessionId,  \* ClaudeCodeAdapter.currentSessionId
    preflightChecked,  \* ClaudeCodeAdapter.preflightChecked
    call,              \* the logical query()/queryStream() call in progress
    turn,              \* the handleMessage call in progress, if the actor called
    callNo,            \* logical calls started so far
    \* DiscordAdapter
    streamingCfg,      \* getStreamingConfig(): mode, showThinking, showDone, showAbort
    phase,             \* per turn id: how far the actor's turn has got
    objs,              \* per turn id: the state objects created for it, in order
    streamStates,      \* per turn id: the object streamStates maps it to, 0 if none
    completedStreamIds,
    ttlTimers,         \* per turn id: pending timers that remove it from completedStreamIds
    completion,        \* per turn id: the onStreamCompleted / onStreamError call
    sent,              \* the render calls made on the thread, in order
    partials,          \* per turn id: the stream-partial events delivered
    fallback,          \* per turn id: what handleActorResponse did with the final text
    lastFire,          \* per turn id: the latest firing of a flush timer
    \* SimpleMessageBus
    actors,            \* SimpleMessageBus.actors: the entries of the Map, in its order
    registered,        \* register calls made so far
    busCall,           \* the send / broadcast call in progress
    \* ClaudeCodeAdapter.stop
    client,            \* the ClaudeClient of the adapter: the SDK's or an injected one
    abortController,   \* ClaudeCodeAdapter.abortController: 0 or a controller
    controllers,       \* the AbortControllers created, in order: aborted or not
    engineCalls,       \* the engine calls made, in order
    stops,             \* stop() calls made so far
    route,             \* what UserActor.handleMessage did with the last text
    inflight           \* the query() calls in flight together, one record each

coreVars == <<config, streamingEnabled, busInjected, emitFailure, listeners, isFirstQuery,
              currentSessionId, preflightChecked, call, turn, callNo>>
discordVars == <<streamingCfg, phase, objs, streamStates, completedStreamIds,
                 ttlTimers, completion, sent, partials, fallback, lastFire>>

adapterVars == <<config, isFirstQuery, currentSessionId, preflightChecked>>
busVars == <<actors, registered, busCall>>
stopVars == <<client, abortController, controllers, engineCalls, stops>>
routeVars == <<route>>
raceVars == <<inflight>>
vars == <<coreVars, discordVars, busVars, stopVars, routeVars, raceVars>>

\* -------------------------------------------------------------- the adapter

\* A configuration with the session fields given and the other fields as
\* the tests' createConfig sets them.
SessionConfig(sid, cont) ==
    [sessionId |-> sid, continueSession |-> cont,
     maxTurns |-> 3, model |-> "test-model", claudePermissionMode |-> "ask"]

\* Options that carry continue on every call.
BuildOptionsAlwaysContinue(cfg, first) ==
    [maxTurns |-> cfg.maxTurns, model |-> cfg.model,
     permissionMode |-> cfg.claudePermissionMode,
     continue |-> TRUE,
     resume   |-> IF cfg.sessionId # NoSession /\ first
                  THEN cfg.sessionId ELSE NoSession]

\* The options of an engine call: the spread of { continue: true } and of
\* { resume: config.sessionId }.
BuildOptions(cfg, first) ==
    [maxTurns |-> cfg.maxTurns, model |-> cfg.model,
     permissionMode |-> cfg.claudePermissionMode,
     continue |-> ~(first /\ ~cfg.continueSession),
     resume   |-> IF cfg.sessionId # NoSession /\ first
                  THEN cfg.sessionId ELSE NoSession]

\* The constructor: a resume or continue configuration starts with
\* isFirstQuery = false.
ConstructorIsFirstQuery(cfg) ==
    ~(cfg.sessionId # NoSession \/ cfg.continueSession)

ConstructorSessionId(cfg) == cfg.sessionId

\* The session-loss match made on error.message as it is, not lower-cased.
IsSessionNotFoundCaseSensitive(e) ==
    \/ Includes(e.message, "no conversation found with session id")
    \/ Includes(e.message, "session not found")
    \/ Includes(e.message, "invalid session")
    \/ Includes(e.message, "session does not exist")

\* error.message.toLowerCase() matched against the session-loss phrases.
IsSessionNotFound(e) ==
    LET errorMessage == ToLowerCase(e.message) IN
       \/ Includes(errorMessage, "no conversation found with session id")
       \/ Includes(errorMessage, "session not found")
       \/ Includes(errorMessage, "invalid session")
       \/ Includes(errorMessage, "session does not exist")

\* A retry guard that looks at the message only: neither the isRetry flag nor
\* the configured session is consulted.
ShouldRetryEveryTime(e, retry, cfg) ==
    /\ e.isError
    /\ ToLowerCase(e.message) \in {"no conversation found with session id: s0",
                                   "session not found"}

\* A retry guard that does not look at the message: any Error is retried once
\* when a session is configured.
ShouldRetryAnyError(e, retry, cfg) ==
    /\ e.isError
    /\ ~retry
    /\ (cfg.sessionId # NoSession \/ cfg.continueSession)

\* The guard of the retry: an Error, not already a retry, a session-loss
\* message, and a session configured.
ShouldRetry(e, retry, cfg) ==
    /\ e.isError
    /\ ~retry
    /\ IsSessionNotFound(e)
    /\ (cfg.sessionId # NoSession \/ cfg.continueSession)

ShouldRunPreflight(message) ==
    LET m == ToLowerCase(message) IN
       \/ Includes(m, "exited with code 1")
       \/ Includes(m, "exited with code")
       \/ Includes(m, "spawn")
       \/ Includes(m, "enoent")
       \/ Includes(m, "not found")
       \/ Includes(m, "eacces")

\* The text query() returns: the tool results first, then the text.
QueryResult(fullResponse, toolResults) ==
    LET joined == IF toolResults # << >>
                  THEN toolResults \o (IF fullResponse # << >>
                                       THEN <<"\n">> \o fullResponse ELSE << >>)
                  ELSE fullResponse
    IN IF joined # << >> THEN joined ELSE <<"No response received.">>

\* The error the catch block throws for a caught value e.
WrappedError(e, api) ==
    IF e.isError
    THEN [isError |-> TRUE, name |-> "Error",
          message |-> (IF api = "query" THEN "ClaudeCodeAdapter: "
                       ELSE "ClaudeCodeAdapter.queryStream: ") \o e.message]
    ELSE [isError |-> TRUE, name |-> "Error",
          message |-> IF api = "query" THEN "ClaudeCodeAdapter: Unknown error"
                      ELSE "ClaudeCodeAdapter.queryStream: Unknown error"]


\* One engine invocation as the client sees it, with the session state it was
\* made in.
Invocation(cfg, first, sid, retry) ==
    [options |-> BuildOptions(cfg, first), isFirstQuery |-> first,
     currentSessionId |-> sid, isRetry |-> retry]

NoOutcome == [kind |-> "none", text |-> << >>, error |-> NoError]

IdleCall ==
    [pc |-> "idle", api |-> "query", caller |-> "direct", isRetry |-> FALSE,
     originalSessionId |-> NoSession, originalContinue |-> FALSE,
     error |-> NoError, fullResponse |-> << >>, toolResults |-> << >>,
     invocations |-> << >>, msgs |-> 0, atYield |-> FALSE, chunks |-> << >>,
     outcome |-> NoOutcome,
     \* what the engine did, as a mock client would record it: the values it
     \* threw and the configuration in effect at the first one
     thrown |-> << >>, configAtThrow |-> SessionConfig(NoSession, FALSE),
     \* the configuration the caller saw when it made the call
     configAtStart |-> SessionConfig(NoSession, FALSE),
     \* the session id the engine stream in progress reported last
     reported |-> NoSession]

\* query()/queryStream() up to the call of client.query: the options are built
\* from the session state and the engine is invoked.
NewCall(api, caller) ==
    [IdleCall EXCEPT !.pc = "awaiting", !.api = api, !.caller = caller,
        !.configAtStart = config,
        !.invocations = <<Invocation(config, isFirstQuery, currentSessionId, FALSE)>>]

\* ----------------------------------------------------------- bus and actor

StreamEvent(type, text, tool, message) ==
    [type |-> type, text |-> text, tool |-> tool, message |-> message, fatal |-> FALSE]

NoResponse == [kind |-> "none", to |-> "", type |-> "", text |-> << >>, error |-> ""]

\* The payload of a message that has none.
NoPayload == [present |-> FALSE, text |-> << >>, channelId |-> NoChannel]

NoTurn ==
    [active |-> FALSE, canStream |-> FALSE, channelId |-> NoChannel,
     emitted |-> << >>, delivered |-> << >>, response |-> NoResponse,
     \* the message handleMessage was called with: its sender, its payload
     from |-> "", payload |-> NoPayload]

\* SimpleMessageBus.emit of the events evs, one call each: an event reaches
\* the listeners when there is one; no actor handler is invoked.
Emit(t, evs) ==
    [t EXCEPT !.emitted = @ \o evs,
              !.delivered = IF listeners = {} THEN @
                            ELSE @ \o SelectSeq(evs, LAMBDA ev : ev.type # emitFailure)]

\* The emit calls made out of evs by a block that leaves at the first
\* emit that rejects.
Attempted(evs) ==
    IF \E i \in DOMAIN evs : evs[i].type = emitFailure
    THEN SubSeq(evs, 1, CHOOSE i \in DOMAIN evs :
                            /\ evs[i].type = emitFailure
                            /\ \A j \in 1..(i - 1) : evs[j].type # emitFailure)
    ELSE evs

\* What a rejecting emit throws.
EmitError == [isError |-> TRUE, name |-> "Error", message |-> "emit failed"]

\* createResponse(to, type, payload, message.id)
ActorResponse(to, type, text, error) ==
    [kind |-> "response", to |-> to, type |-> type, text |-> text, error |-> error]

\* The payloads handleMessage is called with: none at all, one without text,
\* one with text, with or without a channel id.
Payloads ==
    {NoPayload,
     [present |-> TRUE,  text |-> << >>, channelId |-> "ch"],
     [present |-> TRUE,  text |-> <<"hi">>, channelId |-> NoChannel],
     [present |-> TRUE,  text |-> <<"hi">>, channelId |-> "ch"]}

\* The stream-partial events the progress callback emits for one engine
\* message: the text delta first, then one tool chunk per tool_use block; one
\* tool chunk per tool_result of a user message.
OnProgress(m) ==
    CASE m.type = "assistant" ->
            (IF m.text # << >>
             THEN <<StreamEvent("stream-partial", m.text, << >>, "")>> ELSE << >>)
            \o (IF m.toolUse
                THEN <<StreamEvent("stream-partial", << >>, <<"tool_use">>, "")>>
                ELSE << >>)
      [] m.type = "user" ->
            IF m.toolResult # << >>
            THEN <<StreamEvent("stream-partial", << >>, <<"tool_result">> \o m.toolResult, "")>>
            ELSE << >>
      [] OTHER -> << >>

\* The text deltas of the stream-partial events in evs, concatenated.
RECURSIVE TextOf(_)
TextOf(evs) ==
    IF evs = << >> THEN << >>
    ELSE (IF Head(evs).type = "stream-partial" THEN Head(evs).text ELSE << >>)
         \o TextOf(Tail(evs))

\* A completion whose stream-completed carries the text the partials added up
\* to, not the text query() returned.
TurnCompletedWithDeltas(t, text) ==
    [Emit(t,
          <<StreamEvent("stream-completed", TextOf(t.emitted), << >>, "")>>
          \o (IF t.channelId # NoChannel
              THEN <<StreamEvent("message-completed", << >>, << >>, "")>> ELSE << >>))
     EXCEPT !.response = ActorResponse(t.from, "claude-response", text, "")]

\* The end of handleMessage on the streaming path when query() returned text:
\* stream-completed, the completion notice, then the response.
TurnCompleted(t, text) ==
    [Emit(t,
          <<StreamEvent("stream-completed", text, << >>, "")>>
          \o (IF t.channelId # NoChannel
              THEN <<StreamEvent("message-completed", << >>, << >>, "")>> ELSE << >>))
     EXCEPT !.response = ActorResponse(t.from, "claude-response", text, "")]

\* A catch block that returns the error response without emitting stream-error.
TurnFailedSilently(t, e) ==
    LET msg == IF e.isError THEN e.message ELSE "Unknown error" IN
    [t EXCEPT !.response = ActorResponse(t.from, "error", << >>, msg)]

\* A catch block whose stream-error is not marked fatal.
TurnFailedNotFatal(t, e) ==
    LET msg == IF e.isError THEN e.message ELSE "Unknown error" IN
    [Emit(t, <<StreamEvent("stream-error", << >>, << >>, msg)>>)
     EXCEPT !.response = ActorResponse(t.from, "error", << >>, msg)]

\* The catch block of the streaming path: stream-error, then the error response.
TurnFailed(t, e) ==
    LET msg == IF e.isError THEN e.message ELSE "Unknown error" IN
    [Emit(t, <<[StreamEvent("stream-error", << >>, << >>, msg) EXCEPT !.fatal = TRUE]>>)
     EXCEPT !.response = ActorResponse(t.from, "error", << >>, msg)]

\* What handleMessage does with the text query() returned.
TurnAfterReturn(t, text) ==
    IF ~t.active THEN t
    ELSE IF t.canStream
    THEN IF emitFailure = "stream-completed"
         THEN \* the emit of stream-completed throws inside the try
              TurnFailed(Emit(t, <<StreamEvent("stream-completed", text, << >>, "")>>),
                         EmitError)
         ELSE TurnCompleted(t, text)
    ELSE [t EXCEPT !.response = ActorResponse(t.from, "claude-response", text, "")]

\* What handleMessage does with the error query() threw.
TurnAfterThrow(t, e) ==
    IF ~t.active THEN t
    ELSE IF t.canStream THEN TurnFailed(t, e)
    ELSE [t EXCEPT !.response =
             ActorResponse(t.from, "error", << >>,
                           IF e.isError THEN e.message ELSE "Unknown error")]

\* ---------------------------------------------------------- DiscordAdapter

\* The turns the adapter sees: originalMessageId of their stream events.
TurnIds == {"m1", "m2"}
\* The turn a run with one turn is about.
SingleTurn == {"m1"}

\* capContent's default max.
FlushCap == 1900
\* Lengths, in characters, of a short and of a long chunk of text.
SmallLen == 1
LargeLen == 1000

\* A piece of text: the n-th partial's textDelta or toolChunk, the newline the
\* buffers are joined with, the "..." of capContent, the turn's final text.
Token(kind, n, len) == [kind |-> kind, n |-> n, len |-> len, id |-> ""]
NL == Token("newline", 0, 1)
Ellipsis == Token("ellipsis", 0, 3)
FullText == <<Token("fullText", 0, SmallLen)>>

\* What a stream-partial event may carry.
PartialPayloads ==
    {[kind |-> "textDelta", len |-> SmallLen],
     [kind |-> "textDelta", len |-> LargeLen],
     [kind |-> "toolChunk", len |-> SmallLen]}

RECURSIVE Length(_)
Length(s) == IF s = << >> THEN 0 ELSE Head(s).len + Length(Tail(s))

\* String.prototype.trim: the whitespace at both ends removed.
RECURSIVE TrimStart(_)
TrimStart(s) ==
    IF s # << >> /\ Head(s) = NL THEN TrimStart(Tail(s)) ELSE s

RECURSIVE TrimEnd(_)
TrimEnd(s) ==
    IF s # << >> /\ s[Len(s)] = NL THEN TrimEnd(SubSeq(s, 1, Len(s) - 1)) ELSE s

Trim(s) == TrimEnd(TrimStart(s))

\* s.slice(0, max): the pieces that fit whole in the first max characters.
RECURSIVE Slice(_, _)
Slice(s, max) ==
    IF s = << >> \/ Head(s).len > max THEN << >>
    ELSE <<Head(s)>> \o Slice(Tail(s), max - Head(s).len)

CapContent(s) ==
    IF Length(s) > FlushCap THEN Slice(s, FlushCap - 3) \o <<Ellipsis>> ELSE s

StreamingConfigs ==
    [mode : {"edit", "append"}, showThinking : BOOLEAN,
     showDone : BOOLEAN, showAbort : BOOLEAN]

\* The state object onStreamStarted creates. posting: its placeholder post is
\* awaited and the object is not in streamStates yet; flushing: the timer
\* flushes of this object whose render call is awaited; batch: the textDeltas
\* buffered since its pending timer was scheduled.
NewState(mode) ==
    [buffer |-> << >>, toolBuffer |-> << >>, timer |-> FALSE,
     thinkingMessage |-> FALSE, mode |-> mode,
     posting |-> FALSE, flushing |-> 0, batch |-> << >>]

\* A call of send / edit on the thread or on the placeholder message.
Render(id, kind, via, content) ==
    [id |-> id, kind |-> kind, via |-> via, content |-> content]

\* No onStreamCompleted / onStreamError call made for the turn.
\* residual: the content in the turn's buffers when the handler was called;
\* sentAt: the number of render calls made before it.
NoCompletion ==
    [handler |-> "none", pc |-> "none", st |-> 0, residual |-> {}, sentAt |-> 0]

NoFire == [fired |-> FALSE, flushed |-> FALSE, batch |-> << >>, out |-> << >>]

\* A DiscordAdapter that has seen no stream event.
InitDiscord ==
    /\ streamingCfg \in StreamingConfigs
    /\ phase = [id \in TurnIds |-> "idle"]
    /\ objs = [id \in TurnIds |-> << >>]
    /\ streamStates = [id \in TurnIds |-> 0]
    /\ completedStreamIds = {}
    /\ ttlTimers = [id \in TurnIds |-> 0]
    /\ completion = [id \in TurnIds |-> NoCompletion]
    /\ sent = << >>
    /\ partials = [id \in TurnIds |-> << >>]
    /\ fallback = [id \in TurnIds |-> "none"]
    /\ lastFire = [id \in TurnIds |-> NoFire]

\* The defaults of getStreamingConfig.
DefaultStreamingCfg ==
    [mode |-> "append", showThinking |-> TRUE, showDone |-> TRUE, showAbort |-> TRUE]

\* ------------------------------------------------------- the message bus

\* register calls a run makes.
MaxRegs == 3
\* send / broadcast calls a run makes.
MaxBusCalls == 1

ActorNames == {"user", "auto-responder", "assistant"}
\* The actor classes of the repository.
ActorClasses == {"ClaudeCodeActor", "GeminiCliActor"}

\* An actor object: its name, its class, and which register call brought it
\* (0: not registered yet).
ActorObject(name, cls) == [name |-> name, cls |-> cls, stamp |-> 0]

\* An ActorMessage, as far as the bus and the handlers look at it.
ActorMessages ==
    {m \in [from : ActorNames \cup {"discord"}, to : ActorNames,
            type : {"query", "ping"}, payload : {"object", "undefined"}] :
        m.type = "ping" => m.payload = "object"}

\* How the handleMessage promise of an actor settles on a message.
\* ClaudeCodeActor reads content.text of the payload before anything else;
\* GeminiCliActor answers queries with an object payload and ignores the rest.
HandleMessageOutcome(cls, message) ==
    IF cls = "ClaudeCodeActor"
    THEN IF message.payload = "undefined" THEN "throws" ELSE "response"
    ELSE IF message.type = "query" /\ message.payload = "object"
         THEN "response"
         ELSE "null"

\* Map.get that answers with the first entry when the key is absent.
GetOrFirst(reg, name) ==
    IF reg = << >> THEN 0 ELSE 1

\* Map.get: the index of the entry under the name, 0 when there is none.
Get(reg, name) ==
    IF \E i \in DOMAIN reg : reg[i].name = name
    THEN CHOOSE i \in DOMAIN reg : reg[i].name = name
    ELSE 0

\* A registry kept as a list that register only appends to.
MapSetAppend(reg, actor) == Append(reg, actor)

\* Map.set: an entry under a name that is present keeps its place and takes
\* the new value; a new name goes to the end.
MapSet(reg, actor) ==
    IF Get(reg, actor.name) # 0
    THEN [reg EXCEPT ![Get(reg, actor.name)] = actor]
    ELSE Append(reg, actor)

\* Map.delete.
MapDelete(reg, name) ==
    SelectSeq(reg, LAMBDA e : e.name # name)

\* No actor: the value of a lookup that found none.
NoActor == [name |-> "", cls |-> "", stamp |-> 0]

\* The listeners a run of emit has to do with.
EmitListeners == {"discord", "audit", "probe"}

\* How many times a call has invoked each listener: not at all.
NoDeliveries == [l \in EmitListeners |-> 0]

\* delivered, threw: the listener invocations of an emit and the listeners
\* that threw in it. started: the actors a startAll / stopAll has called.
NoBusCall ==
    [op |-> "none", pc |-> "idle", message |-> [from |-> "", to |-> "", type |-> "", payload |-> ""],
     pos |-> 0, current |-> NoActor, invoked |-> << >>, responses |-> << >>,
     outcome |-> "none", actorsAtCall |-> << >>,
     registryChanged |-> FALSE, no |-> 0,
     delivered |-> NoDeliveries, threw |-> {}, started |-> << >>]

\* A bus nothing is registered on.
InitBus ==
    /\ actors = << >>
    /\ registered = 0
    /\ busCall = NoBusCall

\* ---------------------------------------------------------- stop and abort

\* Engine calls a run makes.
MaxEngineCalls == 3
\* stop() calls a run makes.
MaxStops == 2

\* createClaudeClient's client, and a client that takes the abortController.
Clients == {"sdk", "injected"}

\* The controller an engine call is run with, 0 for none: the SDK client
\* calls sdkQuery({ prompt, options }) and leaves the controller out.
EngineController(cl, controller) ==
    IF cl = "sdk" THEN 0 ELSE controller

\* An adapter that made no engine call.
InitStop ==
    /\ abortController = 0
    /\ controllers = << >>
    /\ engineCalls = << >>
    /\ stops = 0

\* ------------------------------------------------------ UserActor: routing

\* Pieces a text is made of; no keyword of the routing runs across two pieces.
Chunks == {"debug", "DEBUG", "task", "Task", "todo", "fix", "!"}
\* Pieces in a text.
MaxChunks == 3

Texts == UNION {[1..n -> Chunks] : n \in 0..MaxChunks}

\* String.prototype.toLowerCase, piece by piece.
ChunkToLowerCase(c) ==
    CASE c = "DEBUG" -> "debug"
      [] c = "Task" -> "task"
      [] OTHER -> c

TextToLowerCase(text) == [i \in DOMAIN text |-> ChunkToLowerCase(text[i])]

\* String.prototype.includes(keyword).
TextIncludes(text, keyword) == \E i \in DOMAIN text : text[i] = keyword

\* String.prototype.startsWith("!").
IsCommand(text) == text # << >> /\ text[1] = "!"

\* A routing that looks for the auto-responder's keywords first.
DetermineTargetActorTaskFirst(text) ==
    IF \/ TextIncludes(TextToLowerCase(text), "task")
       \/ TextIncludes(TextToLowerCase(text), "todo")
    THEN "auto-responder"
    ELSE IF TextIncludes(TextToLowerCase(text), "debug") THEN "debug"
    ELSE "assistant"

DetermineTargetActor(text) ==
    IF TextIncludes(TextToLowerCase(text), "debug") THEN "debug"
    ELSE IF \/ TextIncludes(TextToLowerCase(text), "task")
            \/ TextIncludes(TextToLowerCase(text), "todo")
    THEN "auto-responder"
    ELSE "assistant"

\* UserActor.handleMessage has handled no message.
NoRoute == [kind |-> "none", text |-> << >>, to |-> "", sends |-> 0, handled |-> FALSE]

InitRoute == route = NoRoute

\* The query() calls made on one adapter without waiting for one another.
CallIds == {1, 2}

InitRace == inflight = [k \in CallIds |-> IdleCall]

\* UserActor.handleMessage on a message with the text: a command goes to
\* handleCommand, any other text to the actor determineTargetActor names.
UserHandleMessage(text) ==
    /\ route' = IF IsCommand(text)
                THEN [NoRoute EXCEPT !.kind = "command", !.text = text]
                ELSE [NoRoute EXCEPT !.kind = "routed", !.text = text,
                                     !.to = DetermineTargetActor(text)]
    /\ UNCHANGED <<coreVars, discordVars, busVars, stopVars, raceVars>>

\* The bus as main leaves it: user, auto-responder and the assistant
\* registered, in this order.
MainRegistry ==
    MapSet(MapSet(MapSet(<< >>, ActorObject("user", "UserActor")),
                  ActorObject("auto-responder", "AutoResponderActor")),
           ActorObject("assistant", "ClaudeCodeActor"))

\* handleActorResponse sends the response on over the bus.
Forwarded(to) == to \in {"assistant", "auto-responder"}

\* DiscordAdapter.handleMessage on an allowed user's message in the current
\* thread: the text goes to UserActor, whose response handleActorResponse
\* takes: a command's response is for "system", any other is sent on when
\* Forwarded, and the send finds an actor when one is registered under the
\* name. sends: bus sends of the response; handled: the send found an actor.
DiscordHandleMessage(text) ==
    /\ text # << >>
    /\ LET to == IF IsCommand(text) THEN "system" ELSE DetermineTargetActor(text)
       IN route' = [kind |-> "discord", text |-> text, to |-> to,
                    sends |-> IF Forwarded(to) THEN 1 ELSE 0,
                    handled |-> Forwarded(to) /\ Get(MainRegistry, to) # 0]
    /\ UNCHANGED <<coreVars, discordVars, busVars, stopVars, raceVars>>

\* ------------------------------------------------------------------- Init

Configs == {SessionConfig(sid, cont) : sid \in {NoSession, ConfiguredSid}, cont \in BOOLEAN}

\* The adapter as constructed, no call made yet.
InitAdapter ==
    /\ config \in Configs
    /\ isFirstQuery = ConstructorIsFirstQuery(config)
    /\ currentSessionId = ConstructorSessionId(config)
    /\ preflightChecked = FALSE
    /\ call = IdleCall
    /\ turn = NoTurn
    /\ callNo = 0

\* Configurations that differ in maxTurns, model and claudePermissionMode.
SettingsConfigs ==
    {[cfg EXCEPT !.maxTurns = st.maxTurns, !.model = st.model,
                 !.claudePermissionMode = st.claudePermissionMode] :
        cfg \in Configs,
        st \in {[maxTurns |-> 3, model |-> "test-model", claudePermissionMode |-> "ask"],
                [maxTurns |-> 5, model |-> "undefined", claudePermissionMode |-> "undefined"]}}

\* The adapter called directly: no actor, no bus.
Init ==
    /\ InitAdapter
    /\ streamingEnabled = "unset"
    /\ busInjected = FALSE
    /\ emitFailure = "none"
    /\ listeners = {}
    /\ InitDiscord
    /\ streamingCfg = DefaultStreamingCfg
    /\ InitBus
    /\ client = "sdk"
    /\ InitStop
    /\ InitRoute
    /\ InitRace

\* The actor on its adapter, with or without a bus, with or without a
\* listener on the bus.
InitActor ==
    /\ InitAdapter
    /\ streamingEnabled \in {"unset", "true", "false"}
    /\ busInjected \in BOOLEAN
    /\ emitFailure = "none"
    /\ listeners \in {{}, {"discord"}}
    /\ InitDiscord
    /\ streamingCfg = DefaultStreamingCfg
    /\ InitBus
    /\ client = "sdk"
    /\ InitStop
    /\ InitRoute
    /\ InitRace

CanStart == call.pc \in {"idle", "done"} /\ callNo < MaxCalls

\* ---------------------------------------------------------------- actions

\* A caller (a test, an MCP client) calls adapter.query(prompt).
Query ==
    /\ CanStart
    /\ call' = NewCall("query", "direct")
    /\ turn' = NoTurn
    /\ callNo' = callNo + 1
    /\ UNCHANGED <<adapterVars, streamingEnabled, busInjected, emitFailure, listeners, busVars, stopVars, routeVars, raceVars, discordVars>>

\* A caller starts consuming adapter.queryStream(prompt).
QueryStream ==
    /\ CanStart
    /\ call' = NewCall("queryStream", "direct")
    /\ turn' = NoTurn
    /\ callNo' = callNo + 1
    /\ UNCHANGED <<adapterVars, streamingEnabled, busInjected, emitFailure, listeners, busVars, stopVars, routeVars, raceVars, discordVars>>

\* `!text`: the payload carries no text, or an empty one.
NoTextNever(payload) == FALSE

NoText(payload) == payload.text = << >>

\* The senders of the messages the actor is given.
Senders == {"user", "discord"}

\* ClaudeCodeActor.handleMessage up to the call of adapter.query.
HandleMessage(from, payload) ==
    /\ CanStart
    /\ callNo' = callNo + 1
    /\ LET t == [NoTurn EXCEPT !.active = TRUE, !.from = from, !.payload = payload] IN
       IF ~payload.present
       THEN \* content.text on an undefined payload: a TypeError leaves the handler
            /\ turn' = [t EXCEPT !.response = [NoResponse EXCEPT !.kind = "escaped",
                                                                 !.error = "TypeError"]]
            /\ call' = [IdleCall EXCEPT !.pc = "done"]
       ELSE IF NoText(payload)
       THEN /\ turn' = [t EXCEPT !.response = ActorResponse(from, "error", << >>,
                                                            "No text provided for Claude")]
            /\ call' = [IdleCall EXCEPT !.pc = "done"]
       ELSE LET canStream == streamingEnabled # "false" /\ busInjected
                t0 == [t EXCEPT !.canStream = canStream, !.channelId = payload.channelId]
                t1 == IF busInjected /\ payload.channelId # NoChannel
                      THEN Emit(t0, <<StreamEvent("message-accepted", << >>, << >>, "")>>)
                      ELSE t0
                t2 == IF canStream
                      THEN Emit(t1, <<StreamEvent("stream-started", << >>, << >>, "")>>)
                      ELSE t1
            IN IF canStream /\ emitFailure = "stream-started"
               THEN \* the emit of stream-started throws inside the try
                    /\ turn' = TurnFailed(t2, EmitError)
                    /\ call' = [IdleCall EXCEPT !.pc = "done"]
               ELSE /\ turn' = t2
                    /\ call' = NewCall("query", "actor")
    /\ UNCHANGED <<adapterVars, streamingEnabled, busInjected, emitFailure, listeners, busVars, stopVars, routeVars, raceVars, discordVars>>

\* The chunks queryStream yields for one engine message.
StreamChunks(m, sid) ==
    CASE m.type = "init" -> <<[type |-> "system", content |-> <<"session:", m.session_id>>]>>
      [] m.type = "assistant" ->
            IF m.text # << >> THEN <<[type |-> "text", content |-> m.text]>> ELSE << >>
      [] m.type = "user" ->
            IF m.toolResult # << >>
            THEN <<[type |-> "tool", content |-> <<"tool_result">> \o m.toolResult]>>
            ELSE << >>
      [] OTHER -> << >>

\* The body of the for-await loop for one engine message m: the progress
\* callback, then the session state and the accumulated response.
EngineYield(m) ==
    /\ call.pc = "awaiting"
    /\ call.msgs < MaxMsgs
    /\ turn' = IF turn.active /\ turn.canStream THEN Emit(turn, Attempted(OnProgress(m))) ELSE turn
    /\ currentSessionId' = IF m.type \in {"init", "result"} THEN m.session_id
                           ELSE currentSessionId
    /\ isFirstQuery' = IF m.type = "init" THEN FALSE ELSE isFirstQuery
    /\ call' = [call EXCEPT
          !.msgs = @ + 1,
          !.reported = IF m.type \in {"init", "result"} THEN m.session_id ELSE @,
          !.fullResponse = IF m.type = "assistant" THEN @ \o m.text ELSE @,
          !.toolResults = IF m.type = "user" /\ m.toolResult # << >>
                          THEN @ \o <<"tool_result">> \o m.toolResult ELSE @,
          !.chunks = IF call.api = "queryStream" THEN @ \o StreamChunks(m, m.session_id) ELSE @,
          !.atYield = call.api = "queryStream" /\ StreamChunks(m, m.session_id) # << >>]
    /\ UNCHANGED <<config, preflightChecked, streamingEnabled, busInjected, emitFailure, listeners, busVars, stopVars, routeVars, raceVars, callNo, discordVars>>

\* A retry that starts from an empty configuration.
ClearedConfigWhole(cfg) ==
    [sessionId |-> NoSession, continueSession |-> FALSE,
     maxTurns |-> "undefined", model |-> "undefined", claudePermissionMode |-> "undefined"]

\* The configuration the retry runs with: sessionId and continueSession are
\* written, nothing else is.
ClearedConfig(cfg) ==
    [cfg EXCEPT !.sessionId = NoSession, !.continueSession = FALSE]

\* config.sessionId / config.continueSession after the retry: the saved values.
RestoredConfig ==
    IF call.isRetry
    THEN [config EXCEPT !.sessionId = call.originalSessionId,
                        !.continueSession = call.originalContinue]
    ELSE config

\* The engine stream ends. query() returns its text (through the retrying
\* frame, which restores the configuration); queryStream yields "done".
EngineEnd ==
    /\ call.pc = "awaiting"
    /\ IF call.api = "query"
       THEN LET text == QueryResult(call.fullResponse, call.toolResults) IN
            /\ call' = [call EXCEPT !.pc = "done",
                           !.outcome = [kind |-> "returned", text |-> text, error |-> NoError]]
            /\ config' = RestoredConfig
            /\ turn' = TurnAfterReturn(turn, text)
       ELSE /\ call' = [call EXCEPT !.pc = "yieldedDone", !.atYield = TRUE,
                           !.chunks = @ \o <<[type |-> "done", content |-> << >>]>>]
            /\ UNCHANGED <<config, turn>>
    /\ UNCHANGED <<isFirstQuery, currentSessionId, preflightChecked,
                   streamingEnabled, busInjected, emitFailure, listeners, busVars, stopVars, routeVars, raceVars, callNo, discordVars>>

\* The consumer of queryStream asks for the chunk after "done": the generator
\* returns, through the retrying frame, which restores the configuration.
StreamPull ==
    /\ call.pc = "yieldedDone"
    /\ call' = [call EXCEPT !.pc = "done", !.atYield = FALSE,
                   !.outcome = [kind |-> "returned", text |-> << >>, error |-> NoError]]
    /\ config' = RestoredConfig
    /\ UNCHANGED <<isFirstQuery, currentSessionId, preflightChecked, turn,
                   streamingEnabled, busInjected, emitFailure, listeners, busVars, stopVars, routeVars, raceVars, callNo, discordVars>>

\* The consumer of queryStream leaves its loop at a yielded chunk: the
\* generators are closed by return(), which runs no code after the yield.
StreamAbandon ==
    /\ call.api = "queryStream"
    /\ call.pc \in {"awaiting", "yieldedDone"}
    /\ call.atYield
    /\ call' = [call EXCEPT !.pc = "done", !.atYield = FALSE,
                   !.outcome = [kind |-> "abandoned", text |-> << >>, error |-> NoError]]
    /\ UNCHANGED <<adapterVars, turn, streamingEnabled, busInjected, emitFailure, listeners, busVars, stopVars, routeVars, raceVars, callNo, discordVars>>

AbortedError == [isError |-> TRUE, name |-> "Error", message |-> "Query was aborted"]

\* The catch blocks run the probe whenever the message asks for it.
PreflightProbesUnguarded(checked, e, c) ==
    LET aborted == e.isError /\ e.name = "AbortError"
    IN (IF ~aborted /\ ShouldRunPreflight(e.message) THEN <<e.message>> ELSE << >>)
       \o (IF c.isRetry /\ ShouldRunPreflight(c.error.message)
           THEN <<c.error.message>> ELSE << >>)

\* The messages checkClaudeCliPresence is run for when the engine call of
\* call c throws e, preflightChecked being `checked`: first in the frame that
\* made the engine call (none for an AbortError, which is rethrown before),
\* then, after a failed retry, in the first frame with the first error.
PreflightProbes(checked, e, c) ==
    LET aborted == e.isError /\ e.name = "AbortError"
        inner == IF ~aborted /\ ShouldRunPreflight(e.message) /\ ~checked
                 THEN <<e.message>> ELSE << >>
        outer == IF /\ c.isRetry /\ ShouldRunPreflight(c.error.message)
                    /\ ~(checked \/ inner # << >>)
                 THEN <<c.error.message>> ELSE << >>
    IN inner \o outer

\* The engine call throws e (from client.query or from the stream): the catch
\* block of query()/queryStream().
EngineThrow(e) ==
    /\ call.pc = "awaiting"
    /\ IF ~(e.isError /\ e.name = "AbortError") /\ ShouldRetry(e, call.isRetry, config)
       THEN \* resetSession(), the configuration cleared, and the retry invoked
            LET cleared == ClearedConfig(config) IN
            /\ isFirstQuery' = TRUE
            /\ currentSessionId' = NoSession
            /\ config' = cleared
            /\ call' = [call EXCEPT
                  !.isRetry = TRUE,
                  !.originalSessionId = config.sessionId,
                  !.originalContinue = config.continueSession,
                  !.error = e,
                  !.thrown = Append(@, e),
                  !.configAtThrow = config,
                  !.reported = NoSession,
                  !.fullResponse = << >>, !.toolResults = << >>, !.atYield = FALSE,
                  !.invocations = Append(@, Invocation(cleared, TRUE, NoSession, TRUE))]
            /\ UNCHANGED <<preflightChecked, turn>>
       ELSE LET aborted == e.isError /\ e.name = "AbortError"
                \* the error the frame that made this engine call throws
                inner == IF aborted THEN AbortedError ELSE WrappedError(e, call.api)
                \* the error that leaves the logical call: after a failed retry,
                \* the first attempt's error with its diagnostics
                thrown == IF call.isRetry THEN WrappedError(call.error, call.api) ELSE inner
                probed == PreflightProbes(preflightChecked, e, call) # << >>
            IN
            /\ preflightChecked' = (preflightChecked \/ probed)
            /\ config' = RestoredConfig
            /\ call' = [call EXCEPT !.pc = "done", !.atYield = FALSE,
                           !.thrown = Append(@, e),
                           !.configAtThrow = IF call.thrown = << >> THEN config ELSE @,
                           !.outcome = [kind |-> "thrown", text |-> << >>, error |-> thrown]]
            /\ turn' = TurnAfterThrow(turn, thrown)
            /\ UNCHANGED <<isFirstQuery, currentSessionId>>
    /\ UNCHANGED <<streamingEnabled, busInjected, emitFailure, listeners, busVars, stopVars, routeVars, raceVars, callNo, discordVars>>

\* resetSession(), called between turns (the reset command).
ResetSession ==
    /\ call.pc \in {"idle", "done"}
    /\ callNo < MaxCalls
    /\ ~(isFirstQuery /\ currentSessionId = NoSession)
    /\ isFirstQuery' = TRUE
    /\ currentSessionId' = NoSession
    /\ UNCHANGED <<config, preflightChecked, call, turn, streamingEnabled,
                   busInjected, emitFailure, listeners, busVars, stopVars, routeVars, raceVars, callNo, discordVars>>

\* The engine's side of a call, and the consumer's.
EngineStep ==
    \/ \E m \in EngineMessages : EngineYield(m)
    \/ EngineEnd
    \/ \E e \in EngineErrors : EngineThrow(e)

Next ==
    \/ Query
    \/ QueryStream
    \/ EngineStep
    \/ StreamPull
    \/ StreamAbandon
    \/ ResetSession

Spec == Init /\ [][Next]_vars

\* The adapter called directly, constructed with any of SettingsConfigs.
InitSettings ==
    /\ config \in SettingsConfigs
    /\ isFirstQuery = ConstructorIsFirstQuery(config)
    /\ currentSessionId = ConstructorSessionId(config)
    /\ preflightChecked = FALSE
    /\ call = IdleCall
    /\ turn = NoTurn
    /\ callNo = 0
    /\ streamingEnabled = "unset"
    /\ busInjected = FALSE
    /\ emitFailure = "none"
    /\ listeners = {}
    /\ InitDiscord
    /\ streamingCfg = DefaultStreamingCfg
    /\ InitBus
    /\ client = "sdk"
    /\ InitStop
    /\ InitRoute
    /\ InitRace

SpecSettings == InitSettings /\ [][Next]_vars

\* query(prompt), called while another query() may be awaiting its engine.
ConcurrentQuery(k) ==
    /\ inflight[k].pc = "idle"
    /\ inflight' = [inflight EXCEPT ![k] = NewCall("query", "direct")]
    /\ UNCHANGED <<coreVars, discordVars, busVars, stopVars, routeVars>>

\* The for-await body of call k for one engine message.
ConcurrentEngineYield(k, m) ==
    /\ inflight[k].pc = "awaiting"
    /\ inflight[k].msgs < MaxMsgs
    /\ currentSessionId' = IF m.type \in {"init", "result"} THEN m.session_id
                           ELSE currentSessionId
    /\ isFirstQuery' = IF m.type = "init" THEN FALSE ELSE isFirstQuery
    /\ inflight' = [inflight EXCEPT ![k].msgs = @ + 1]
    /\ UNCHANGED <<config, preflightChecked, call, turn, callNo, streamingEnabled,
                   busInjected, emitFailure, listeners, discordVars, busVars,
                   stopVars, routeVars>>

\* The engine stream of call k ends: query() returns, through the retrying
\* frame when there is one, which writes the values it saved back.
ConcurrentEngineEnd(k) ==
    /\ inflight[k].pc = "awaiting"
    /\ inflight' = [inflight EXCEPT ![k].pc = "done", ![k].outcome.kind = "returned"]
    /\ config' = IF inflight[k].isRetry
                 THEN [config EXCEPT !.sessionId = inflight[k].originalSessionId,
                                     !.continueSession = inflight[k].originalContinue]
                 ELSE config
    /\ UNCHANGED <<isFirstQuery, currentSessionId, preflightChecked, call, turn, callNo,
                   streamingEnabled, busInjected, emitFailure, listeners,
                   discordVars, busVars, stopVars, routeVars>>

\* The engine call of call k throws e: the catch block of query(), deciding
\* on this.config as it is when the catch runs.
ConcurrentEngineThrow(k, e) ==
    /\ inflight[k].pc = "awaiting"
    /\ LET c == inflight[k]
           aborted == e.isError /\ e.name = "AbortError"
       IN IF ~aborted /\ ShouldRetry(e, c.isRetry, config)
          THEN /\ isFirstQuery' = TRUE
               /\ currentSessionId' = NoSession
               /\ config' = ClearedConfig(config)
               /\ inflight' = [inflight EXCEPT ![k] =
                     [c EXCEPT !.isRetry = TRUE,
                               !.originalSessionId = config.sessionId,
                               !.originalContinue = config.continueSession,
                               !.error = e,
                               !.thrown = Append(@, e),
                               !.configAtThrow = config,
                               !.invocations = Append(@, Invocation(ClearedConfig(config),
                                                                    TRUE, NoSession, TRUE))]]
               /\ UNCHANGED preflightChecked
          ELSE /\ preflightChecked' =
                     (preflightChecked \/ PreflightProbes(preflightChecked, e, c) # << >>)
               /\ config' = IF c.isRetry
                            THEN [config EXCEPT !.sessionId = c.originalSessionId,
                                                !.continueSession = c.originalContinue]
                            ELSE config
               /\ inflight' = [inflight EXCEPT ![k] =
                     [c EXCEPT !.pc = "done",
                               !.thrown = Append(@, e),
                               !.configAtThrow = IF c.thrown = << >> THEN config ELSE @,
                               !.outcome.kind = "thrown"]]
               /\ UNCHANGED <<isFirstQuery, currentSessionId>>
    /\ UNCHANGED <<call, turn, callNo, streamingEnabled, busInjected, emitFailure,
                   listeners, discordVars, busVars, stopVars, routeVars>>

\* One adapter configured with a sessionId, no call made yet.
InitConcurrent ==
    /\ Init
    /\ config = SessionConfig(ConfiguredSid, FALSE)

NextConcurrent ==
    \/ \E k \in CallIds : ConcurrentQuery(k)
    \/ \E k \in CallIds : \E m \in EngineMessages : ConcurrentEngineYield(k, m)
    \/ \E k \in CallIds : ConcurrentEngineEnd(k)
    \/ \E k \in CallIds : \E e \in EngineErrors : ConcurrentEngineThrow(k, e)

SpecConcurrent == InitConcurrent /\ [][NextConcurrent]_vars

NextActor ==
    \/ \E from \in Senders : \E payload \in Payloads : HandleMessage(from, payload)
    \/ EngineStep
    \/ ResetSession

SpecActor == InitActor /\ [][NextActor]_vars

\* ------------------------------------------------- DiscordAdapter: handlers

\* The adapter's mutable state, as one value the handlers' code transforms.
Cur ==
    [objs |-> objs, streamStates |-> streamStates,
     completedStreamIds |-> completedStreamIds, ttlTimers |-> ttlTimers,
     completion |-> completion, sent |-> sent]

Commit(d) ==
    /\ objs' = d.objs
    /\ streamStates' = d.streamStates
    /\ completedStreamIds' = d.completedStreamIds
    /\ ttlTimers' = d.ttlTimers
    /\ completion' = d.completion
    /\ sent' = d.sent

\* onStreamStarted up to its first await: with the placeholder to post the new
\* state object waits for the post outside streamStates, otherwise it is set.
OnStreamStarted(d, id) ==
    LET posts == streamingCfg.showThinking /\ streamingCfg.mode = "edit"
        st == [NewState(streamingCfg.mode) EXCEPT !.posting = posts]
        d1 == [d EXCEPT !.objs[id] = Append(@, st)]
    IN IF posts
       THEN [d1 EXCEPT !.sent = Append(@, Render(id, "thinking", "send", << >>))]
       ELSE [d1 EXCEPT !.streamStates[id] = Len(d1.objs[id])]

ScheduleFlush(d, id) ==
    LET o == d.streamStates[id] IN
    IF o = 0 \/ d.objs[id][o].timer THEN d
    ELSE [d EXCEPT !.objs[id][o].timer = TRUE]

\* The text flushNow builds from the buffers of a state object.
Out(st) ==
    Trim(st.toolBuffer
         \o (IF st.toolBuffer # << >> /\ st.buffer # << >> THEN <<NL>> ELSE << >>)
         \o st.buffer)

\* flushNow gets past its early returns and makes a render call.
Flushes(d, id) ==
    /\ d.streamStates[id] # 0
    /\ Out(d.objs[id][d.streamStates[id]]) # << >>

\* flushNow up to its await: the render call. The buffers are cleared when
\* the call settles (FlushSettles, FinalFlushSettles).
FlushNow(d, id, fromTimer) ==
    IF ~Flushes(d, id) THEN d
    ELSE LET o == d.streamStates[id]
             st == d.objs[id][o]
             via == IF st.mode = "edit" /\ st.thinkingMessage THEN "edit" ELSE "send"
         IN [d EXCEPT !.sent = Append(@, Render(id, "flush", via, CapContent(Out(st)))),
                      !.objs[id][o].flushing = IF fromTimer THEN @ + 1 ELSE @]

\* The finally of flushNow.
ClearBuffers(d, id, o) ==
    [d EXCEPT !.objs[id][o].buffer = << >>, !.objs[id][o].toolBuffer = << >>]

\* The end of onStreamCompleted and of onStreamError.
FinishAll(d, id) ==
    [d EXCEPT !.streamStates = [t \in TurnIds |-> 0],
              !.completedStreamIds = @ \cup {id},
              !.ttlTimers[id] = @ + 1,
              !.completion[id].pc = "finished"]

Finish(d, id) ==
    [d EXCEPT !.streamStates[id] = 0,
              !.completedStreamIds = @ \cup {id},
              !.ttlTimers[id] = @ + 1,
              !.completion[id].pc = "finished"]

\* onStreamCompleted from the done marker on.
AfterFinal(d, id) ==
    IF streamingCfg.showDone
    THEN [d EXCEPT !.sent = Append(@, Render(id, "done", "send", << >>)),
                   !.completion[id].pc = "done"]
    ELSE Finish(d, id)

\* onStreamCompleted from the final text on.
AfterDelete(d, id) ==
    IF streamingCfg.mode = "edit"
    THEN [d EXCEPT !.sent = Append(@, Render(id, "final", "send", FullText)),
                   !.completion[id].pc = "final"]
    ELSE AfterFinal(d, id)

\* onStreamCompleted after its await of flushNow.
AfterFlush(d, id) ==
    LET st == d.completion[id].st IN
    IF /\ streamingCfg.mode = "edit"
       /\ streamingCfg.showThinking
       /\ st # 0
       /\ d.objs[id][st].thinkingMessage
    THEN [d EXCEPT !.completion[id].pc = "delete"]
    ELSE AfterDelete(d, id)

\* onStreamError from the abort notice on.
ErrorAfterDelete(d, id) ==
    IF streamingCfg.showAbort
    THEN [d EXCEPT !.sent = Append(@, Render(id, "abort", "send", << >>)),
                   !.completion[id].pc = "abort"]
    ELSE Finish(d, id)

\* The pieces of content in the buffers of the turn's state objects.
Buffered(d, id) ==
    {tk \in UNION {{d.objs[id][o].buffer[i] : i \in DOMAIN d.objs[id][o].buffer}
                   \cup {d.objs[id][o].toolBuffer[i] : i \in DOMAIN d.objs[id][o].toolBuffer}
                   : o \in DOMAIN d.objs[id]} : tk # NL}

\* handleActorResponse with the turn's non-empty final text: the text is sent
\* unless the turn is in streamStates or in completedStreamIds.
Suppressed(d, id) ==
    /\ streamingEnabled # "false"
    /\ (d.streamStates[id] # 0 \/ id \in d.completedStreamIds)

HandleActorResponse(d, id) ==
    IF Suppressed(d, id) THEN d
    ELSE [d EXCEPT !.sent = Append(@, Render(id, "fallback", "send", FullText))]

\* The responses of the assistant that handleActorResponse is given for a turn
\* no stream event was emitted for: the engine's text, or an error.
AssistantResponses ==
    {ActorResponse("user", "claude-response", FullText, ""),
     ActorResponse("user", "error", << >>, "Network error: Connection refused")}

\* handleActorResponse with the assistant's response to such a turn: the text
\* of the payload is sent when there is one and the turn is not suppressed.
HandleAssistantResponse(d, id, response) ==
    IF response.text = << >> \/ Suppressed(d, id) THEN d
    ELSE [d EXCEPT !.sent = Append(@, Render(id, "response", "send", response.text))]

\* --------------------------------------------------- DiscordAdapter: actions

\* The actor emits stream-started for the turn.
StreamStarted(id) ==
    /\ phase[id] = "idle"
    /\ phase' = [phase EXCEPT ![id] = "streaming"]
    /\ Commit(OnStreamStarted(Cur, id))
    /\ UNCHANGED <<coreVars, busVars, stopVars, routeVars, raceVars, streamingCfg, partials, fallback, lastFire>>

\* The placeholder post of state object o settles, ok or not: the rest of
\* onStreamStarted. The posts go to one thread and settle in the order made.
PostSettles(id, o, ok) ==
    /\ objs[id][o].posting
    /\ \A o2 \in 1..(o - 1) : ~objs[id][o2].posting
    /\ objs' = [objs EXCEPT ![id][o].posting = FALSE, ![id][o].thinkingMessage = ok]
    /\ streamStates' = [streamStates EXCEPT ![id] = o]
    /\ UNCHANGED <<coreVars, busVars, stopVars, routeVars, raceVars, streamingCfg, phase, completedStreamIds, ttlTimers,
                   completion, sent, partials, fallback, lastFire>>

\* The actor emits a stream-partial for the turn: onStreamPartial.
StreamPartial(id, p) ==
    /\ phase[id] = "streaming"
    /\ Len(partials[id]) < MaxPartials
    /\ LET tk == [Token(p.kind, Len(partials[id]) + 1, p.len) EXCEPT !.id = id]
           d0 == IF streamStates[id] = 0 THEN OnStreamStarted(Cur, id) ELSE Cur
           s == d0.streamStates[id]
           d1 == IF s = 0 THEN d0
                 ELSE [d0 EXCEPT
                         !.objs[id][s].toolBuffer =
                             IF p.kind = "toolChunk"
                             THEN @ \o (IF @ # << >> THEN <<NL>> ELSE << >>) \o <<tk>>
                             ELSE @,
                         !.objs[id][s].buffer =
                             IF p.kind = "textDelta" THEN Append(@, tk) ELSE @,
                         !.objs[id][s].batch =
                             (IF d0.objs[id][s].timer THEN @ ELSE << >>)
                             \o (IF p.kind = "textDelta" THEN <<tk>> ELSE << >>)]
       IN /\ Commit(ScheduleFlush(d1, id))
          /\ partials' = [partials EXCEPT ![id] = Append(@, tk)]
    /\ UNCHANGED <<coreVars, busVars, stopVars, routeVars, raceVars, streamingCfg, phase, fallback, lastFire>>

\* The flush timer of state object o fires: the callback of scheduleFlush.
TimerFires(id, o) ==
    /\ objs[id][o].timer
    /\ LET d0 == [Cur EXCEPT !.objs[id][o].timer = FALSE]
           d1 == FlushNow(d0, id, TRUE)
       IN /\ Commit(d1)
          /\ lastFire' = [lastFire EXCEPT ![id] =
                 [fired |-> TRUE, flushed |-> Flushes(d0, id),
                  batch |-> objs[id][o].batch,
                  out |-> IF Flushes(d0, id) THEN d1.sent[Len(d1.sent)].content
                          ELSE << >>]]
    /\ UNCHANGED <<coreVars, busVars, stopVars, routeVars, raceVars, streamingCfg, phase, partials, fallback>>

\* The render call of a timer flush of state object o settles.
FlushSettles(id, o) ==
    /\ objs[id][o].flushing > 0
    /\ Commit(ClearBuffers([Cur EXCEPT !.objs[id][o].flushing = @ - 1], id, o))
    /\ UNCHANGED <<coreVars, busVars, stopVars, routeVars, raceVars, streamingCfg, phase, partials, fallback, lastFire>>

\* The actor emits stream-completed and returns the turn's response, which
\* handleActorResponse processes before any timer or request settles.
StreamCompleted(id) ==
    /\ phase[id] = "streaming"
    /\ phase' = [phase EXCEPT ![id] = "ended"]
    /\ LET st == streamStates[id]
           d0 == IF st # 0 THEN [Cur EXCEPT !.objs[id][st].timer = FALSE] ELSE Cur
           d1 == [d0 EXCEPT !.completion[id] =
                     [handler |-> "completed", pc |-> "flush", st |-> st,
                      residual |-> Buffered(Cur, id), sentAt |-> Len(sent)]]
           d2 == IF Flushes(d1, id) THEN FlushNow(d1, id, FALSE) ELSE AfterFlush(d1, id)
       IN /\ Commit(HandleActorResponse(d2, id))
          /\ fallback' = [fallback EXCEPT ![id] =
                 IF Suppressed(d2, id) THEN "suppressed" ELSE "sent"]
    /\ UNCHANGED <<coreVars, busVars, stopVars, routeVars, raceVars, streamingCfg, partials, lastFire>>

\* The actor emits stream-error and returns an error response, which carries
\* no text for handleActorResponse to send.
StreamError(id) ==
    /\ phase[id] = "streaming"
    /\ phase' = [phase EXCEPT ![id] = "ended"]
    /\ LET st == streamStates[id]
           d0 == IF st # 0 THEN [Cur EXCEPT !.objs[id][st].timer = FALSE] ELSE Cur
           d1 == [d0 EXCEPT !.completion[id] =
                     [handler |-> "error", pc |-> "delete", st |-> st,
                      residual |-> Buffered(Cur, id), sentAt |-> Len(sent)]]
       IN Commit(IF streamingCfg.mode = "edit" /\ st # 0 /\ d1.objs[id][st].thinkingMessage
                 THEN d1 ELSE ErrorAfterDelete(d1, id))
    /\ fallback' = [fallback EXCEPT ![id] = "noText"]
    /\ UNCHANGED <<coreVars, busVars, stopVars, routeVars, raceVars, streamingCfg, partials, lastFire>>

\* The assistant returns the response of a turn it emitted no stream event
\* for (streaming disabled, no bus injected, or a message without text).
AssistantResponds(id, response) ==
    /\ phase[id] = "idle"
    /\ phase' = [phase EXCEPT ![id] = "ended"]
    /\ Commit(HandleAssistantResponse(Cur, id, response))
    /\ fallback' = [fallback EXCEPT ![id] =
           IF response.type = "error" THEN "errorResponse" ELSE "textResponse"]
    /\ UNCHANGED <<coreVars, busVars, stopVars, routeVars, raceVars, streamingCfg, partials, lastFire>>

\* The render call of onStreamCompleted's flush settles: the finally of
\* flushNow, then onStreamCompleted goes on.
FinalFlushSettles(id) ==
    /\ completion[id].handler = "completed"
    /\ completion[id].pc = "flush"
    /\ Commit(AfterFlush(ClearBuffers(Cur, id, completion[id].st), id))
    /\ UNCHANGED <<coreVars, busVars, stopVars, routeVars, raceVars, streamingCfg, phase, partials, fallback, lastFire>>

\* The deletion of the placeholder settles.
ThinkingDeleted(id) ==
    /\ completion[id].pc = "delete"
    /\ Commit(IF completion[id].handler = "completed"
              THEN AfterDelete(Cur, id) ELSE ErrorAfterDelete(Cur, id))
    /\ UNCHANGED <<coreVars, busVars, stopVars, routeVars, raceVars, streamingCfg, phase, partials, fallback, lastFire>>

\* sendLongMessage / sendLongToCurrentThread of the final text is through.
FinalTextSent(id) ==
    /\ completion[id].pc = "final"
    /\ Commit(AfterFinal(Cur, id))
    /\ UNCHANGED <<coreVars, busVars, stopVars, routeVars, raceVars, streamingCfg, phase, partials, fallback, lastFire>>

\* The send of the done marker or of the abort notice settles.
MarkerSent(id) ==
    /\ completion[id].pc \in {"done", "abort"}
    /\ Commit(Finish(Cur, id))
    /\ UNCHANGED <<coreVars, busVars, stopVars, routeVars, raceVars, streamingCfg, phase, partials, fallback, lastFire>>

\* The 60 s timer set at the end of the turn fires.
TtlExpires(id) ==
    /\ ttlTimers[id] > 0
    /\ ttlTimers' = [ttlTimers EXCEPT ![id] = @ - 1]
    /\ completedStreamIds' = completedStreamIds \ {id}
    /\ UNCHANGED <<coreVars, busVars, stopVars, routeVars, raceVars, streamingCfg, phase, objs, streamStates, completion,
                   sent, partials, fallback, lastFire>>

\* A DiscordAdapter in its thread, streaming enabled, and an adapter at rest.
InitStream ==
    /\ InitAdapter
    /\ config = SessionConfig(NoSession, FALSE)
    /\ streamingEnabled = "unset"
    /\ busInjected = TRUE
    /\ emitFailure = "none"
    /\ listeners = {"discord"}
    /\ InitDiscord
    /\ InitBus
    /\ client = "sdk"
    /\ InitStop
    /\ InitRoute
    /\ InitRace

NextDiscord ==
    \/ \E id \in SingleTurn : StreamStarted(id)
    \/ \E id \in SingleTurn : \E p \in PartialPayloads : StreamPartial(id, p)
    \/ \E id \in SingleTurn : StreamCompleted(id)
    \/ \E id \in SingleTurn : StreamError(id)
    \/ \E id \in SingleTurn : \E response \in AssistantResponses :
          AssistantResponds(id, response)
    \/ \E id \in SingleTurn : \E o \in DOMAIN objs[id] : \E ok \in BOOLEAN :
          PostSettles(id, o, ok)
    \/ \E id \in SingleTurn : \E o \in DOMAIN objs[id] : TimerFires(id, o)
    \/ \E id \in SingleTurn : \E o \in DOMAIN objs[id] : FlushSettles(id, o)
    \/ \E id \in SingleTurn : FinalFlushSettles(id)
    \/ \E id \in SingleTurn : ThinkingDeleted(id)
    \/ \E id \in SingleTurn : FinalTextSent(id)
    \/ \E id \in SingleTurn : MarkerSent(id)
    \/ \E id \in SingleTurn : TtlExpires(id)

SpecDiscord == InitStream /\ [][NextDiscord]_vars

\* Two turns in flight at once, each with one short textDelta at most, in
\* append mode and in edit mode with the placeholder.
InitTurns ==
    /\ InitStream
    /\ streamingCfg \in {DefaultStreamingCfg,
                         [mode |-> "edit", showThinking |-> TRUE,
                          showDone |-> FALSE, showAbort |-> FALSE]}

NextTurns ==
    \/ \E id \in TurnIds : StreamStarted(id)
    \/ \E id \in TurnIds :
          /\ partials[id] = << >>
          /\ StreamPartial(id, [kind |-> "textDelta", len |-> SmallLen])
    \/ \E id \in TurnIds : StreamCompleted(id)
    \/ \E id \in TurnIds : StreamError(id)
    \/ \E id \in TurnIds : \E o \in DOMAIN objs[id] : PostSettles(id, o, TRUE)
    \/ \E id \in TurnIds : \E o \in DOMAIN objs[id] : TimerFires(id, o)
    \/ \E id \in TurnIds : \E o \in DOMAIN objs[id] : FlushSettles(id, o)
    \/ \E id \in TurnIds : FinalFlushSettles(id)
    \/ \E id \in TurnIds : ThinkingDeleted(id)
    \/ \E id \in TurnIds : FinalTextSent(id)
    \/ \E id \in TurnIds : MarkerSent(id)
    \/ \E id \in TurnIds : TtlExpires(id)

SpecTurns == InitTurns /\ [][NextTurns]_vars

\* The event types of the actor's emit calls.
EmittedTypes ==
    {"message-accepted", "stream-started", "stream-partial", "stream-completed",
     "message-completed", "stream-error"}

\* The actor on a bus whose emit rejects on the events of one type.
InitActorBus ==
    /\ InitAdapter
    /\ config \in {SessionConfig(NoSession, FALSE), SessionConfig(NoSession, TRUE)}
    /\ streamingEnabled \in {"unset", "false"}
    /\ busInjected = TRUE
    /\ emitFailure \in EmittedTypes
    /\ listeners = {"discord"}
    /\ InitDiscord
    /\ streamingCfg = DefaultStreamingCfg
    /\ InitBus
    /\ client = "sdk"
    /\ InitStop
    /\ InitRoute
    /\ InitRace

SpecActorBus == InitActorBus /\ [][NextActor]_vars

\* ------------------------------------------------- the message bus at work

ListenerNames == {"discord"}

CanCallBus == busCall.pc \in {"idle", "done"} /\ busCall.no < MaxBusCalls

\* A run ends with the return of its last bus call.
BusInUse == busCall.pc = "awaiting" \/ busCall.no < MaxBusCalls

\* register(actor).
Register(name, cls) ==
    /\ BusInUse
    /\ registered < MaxRegs
    /\ registered' = registered + 1
    /\ actors' = MapSet(actors, [ActorObject(name, cls) EXCEPT !.stamp = registered + 1])
    /\ busCall' = IF busCall.pc = "awaiting"
                  THEN [busCall EXCEPT !.registryChanged = TRUE]
                  ELSE busCall
    /\ UNCHANGED <<coreVars, discordVars, stopVars, routeVars, raceVars>>

\* unregister(actorName): nothing happens when the name is absent. An
\* iterator of the Map that has passed the entry has one entry less behind it.
Unregister(name) ==
    /\ BusInUse
    /\ actors' = MapDelete(actors, name)
    /\ busCall' = IF busCall.pc = "awaiting" /\ Get(actors, name) # 0
                  THEN [busCall EXCEPT !.registryChanged = TRUE,
                                       !.pos = IF Get(actors, name) <= @ THEN @ - 1 ELSE @]
                  ELSE busCall
    /\ UNCHANGED <<registered, coreVars, discordVars, stopVars, routeVars, raceVars>>

AddListener(l) ==
    /\ BusInUse
    /\ listeners' = listeners \cup {l}
    /\ UNCHANGED <<config, streamingEnabled, busInjected, emitFailure, isFirstQuery, currentSessionId,
                   preflightChecked, call, turn, callNo, discordVars, busVars, stopVars, routeVars, raceVars>>

RemoveListener(l) ==
    /\ BusInUse
    /\ listeners' = listeners \ {l}
    /\ UNCHANGED <<config, streamingEnabled, busInjected, emitFailure, isFirstQuery, currentSessionId,
                   preflightChecked, call, turn, callNo, discordVars, busVars, stopVars, routeVars, raceVars>>

\* A handleMessage call: the actor object and the message it was given.
Invoked(actor, message) == [actor |-> actor, message |-> message]

\* The call's promise settles.
Returned(c, outcome) ==
    [c EXCEPT !.pc = "done", !.outcome = outcome, !.current = NoActor]

StartedBusCall(op, message) ==
    [NoBusCall EXCEPT !.op = op, !.message = message, !.no = busCall.no + 1,
                      !.actorsAtCall = actors]

\* send(message): to its first await, or to its return when there is no target.
Send(message) ==
    /\ CanCallBus
    /\ LET target == Get(actors, message.to)
           c == StartedBusCall("send", message)
       IN busCall' = IF target = 0
                     THEN Returned(c, "null")
                     ELSE [c EXCEPT !.pc = "awaiting", !.current = actors[target],
                                    !.invoked = <<Invoked(actors[target], message)>>]
    /\ UNCHANGED <<actors, registered, coreVars, discordVars, stopVars, routeVars, raceVars>>

\* The next entry the for-of loop of broadcast hands to its body without
\* `continue`: the first one behind the iterator that is not the sender.
NextRecipient(reg, pos, from) ==
    IF \E i \in DOMAIN reg : i > pos /\ reg[i].name # from
    THEN CHOOSE i \in DOMAIN reg :
            /\ i > pos /\ reg[i].name # from
            /\ \A j \in DOMAIN reg : (j > pos /\ reg[j].name # from) => i <= j
    ELSE 0

\* The loop of broadcast from where it stands to its next await or its return.
BroadcastLoop(c) ==
    LET i == NextRecipient(actors, c.pos, c.message.from)
    IN IF i = 0
       THEN Returned(c, "responses")
       ELSE [c EXCEPT !.pc = "awaiting", !.pos = i, !.current = actors[i],
                      !.invoked = Append(@, Invoked(actors[i],
                                                    [c.message EXCEPT !.to = actors[i].name]))]

\* broadcast(message): to its first await, or to its return.
Broadcast(message) ==
    /\ CanCallBus
    /\ busCall' = BroadcastLoop(StartedBusCall("broadcast", message))
    /\ UNCHANGED <<actors, registered, coreVars, discordVars, stopVars, routeVars, raceVars>>

\* A bus that supervises its actors: a handler that throws is taken off the
\* registry and counts as one that answered null.
HandlerSettlesSupervised ==
    /\ busCall.pc = "awaiting"
    /\ LET o == HandleMessageOutcome(busCall.current.cls,
                                     busCall.invoked[Len(busCall.invoked)].message)
       IN /\ busCall' =
               IF busCall.op = "send" THEN Returned(busCall, IF o = "throws" THEN "null" ELSE o)
               ELSE BroadcastLoop([busCall EXCEPT
                       !.responses = IF o = "response" THEN Append(@, busCall.current) ELSE @])
          /\ actors' = IF o = "throws" THEN MapDelete(actors, busCall.current.name) ELSE actors
    /\ UNCHANGED <<registered, coreVars, discordVars, stopVars, routeVars, raceVars>>

\* The handler awaited settles; send returns what it gave, broadcast goes on
\* with its loop, and a rejection rejects either.
HandlerSettles ==
    /\ busCall.pc = "awaiting"
    /\ LET o == HandleMessageOutcome(busCall.current.cls,
                                     busCall.invoked[Len(busCall.invoked)].message)
       IN busCall' =
            IF busCall.op = "send" THEN Returned(busCall, o)
            ELSE IF o = "throws" THEN Returned(busCall, "throws")
            ELSE BroadcastLoop([busCall EXCEPT
                    !.responses = IF o = "response" THEN Append(@, busCall.current) ELSE @])
    /\ UNCHANGED <<actors, registered, coreVars, discordVars, stopVars, routeVars, raceVars>>

\* The for-of loop of emit after a listener that threw, were its call not in
\* a try: the loop is over.
AfterListenerUncaught(rest, l, throwing) ==
    IF l \in throwing THEN {} ELSE rest \ {l}

\* The for-of loop of emit after the call of listener l: the catch takes
\* what l threw and the loop goes on with the listeners not visited yet.
AfterListener(rest, l, throwing) == rest \ {l}

RECURSIVE EmitLoop(_, _, _)
EmitLoop(rest, throwing, counts) ==
    IF rest = {} THEN counts
    ELSE LET l == CHOOSE x \in rest : TRUE
         IN EmitLoop(AfterListener(rest, l, throwing), throwing,
                     [counts EXCEPT ![l] = @ + 1])

\* emit(message): it has no await, so it runs to its return in one step.
\* throwing: the listeners that throw on this message.
BusEmit(message, throwing) ==
    /\ CanCallBus
    /\ throwing \subseteq listeners
    /\ busCall' = [Returned(StartedBusCall("emit", message), "void") EXCEPT
                      !.delivered = EmitLoop(listeners, throwing, NoDeliveries),
                      !.threw = throwing]
    /\ UNCHANGED <<actors, registered, coreVars, discordVars, stopVars, routeVars, raceVars>>

InitBusOnly ==
    /\ InitAdapter
    /\ config = SessionConfig(NoSession, FALSE)
    /\ streamingEnabled = "unset"
    /\ busInjected = TRUE
    /\ emitFailure = "none"
    /\ listeners = {}
    /\ InitDiscord
    /\ streamingCfg = DefaultStreamingCfg
    /\ InitBus
    /\ client = "sdk"
    /\ InitStop
    /\ InitRoute
    /\ InitRace

NextBus ==
    \/ \E name \in ActorNames : \E cls \in ActorClasses : Register(name, cls)
    \/ \E name \in ActorNames : Unregister(name)
    \/ \E l \in ListenerNames : AddListener(l)
    \/ \E l \in ListenerNames : RemoveListener(l)
    \/ \E message \in ActorMessages : Send(message)
    \/ \E message \in ActorMessages : Broadcast(message)
    \/ HandlerSettles

SpecBus == InitBusOnly /\ [][NextBus]_vars

\* The loop of startAll / stopAll from where it stands to its next await or
\* its return: the next entry of the Map behind the iterator is called.
LifecycleLoop(c) ==
    IF c.pos < Len(actors)
    THEN [c EXCEPT !.pc = "awaiting", !.pos = c.pos + 1, !.current = actors[c.pos + 1],
                   !.started = Append(@, actors[c.pos + 1])]
    ELSE Returned(c, "void")

\* startAll(): to its first await, or to its return on an empty registry.
StartAll ==
    /\ CanCallBus
    /\ busCall' = LifecycleLoop(StartedBusCall("startAll", NoBusCall.message))
    /\ UNCHANGED <<actors, registered, coreVars, discordVars, stopVars, routeVars, raceVars>>

\* stopAll(): the same loop over the same Map, with stop for start.
StopAll ==
    /\ CanCallBus
    /\ busCall' = LifecycleLoop(StartedBusCall("stopAll", NoBusCall.message))
    /\ UNCHANGED <<actors, registered, coreVars, discordVars, stopVars, routeVars, raceVars>>

\* The start() or stop() awaited settles: the loop goes on when it resolved,
\* and its rejection rejects startAll / stopAll, which has no try.
LifecycleSettles(ok) ==
    /\ busCall.pc = "awaiting"
    /\ busCall.op \in {"startAll", "stopAll"}
    /\ busCall' = IF ok THEN LifecycleLoop(busCall) ELSE Returned(busCall, "throws")
    /\ UNCHANGED <<actors, registered, coreVars, discordVars, stopVars, routeVars, raceVars>>

NextLifecycle ==
    \/ \E name \in ActorNames : \E cls \in ActorClasses : Register(name, cls)
    \/ \E name \in ActorNames : Unregister(name)
    \/ StartAll
    \/ StopAll
    \/ \E ok \in BOOLEAN : LifecycleSettles(ok)

SpecLifecycle == InitBusOnly /\ [][NextLifecycle]_vars

NextUser ==
    \/ \E text \in Texts : UserHandleMessage(text)
    \/ \E text \in Texts : DiscordHandleMessage(text)

SpecUser == InitBusOnly /\ [][NextUser]_vars

NextEmit ==
    \/ \E name \in ActorNames : Register(name, "ClaudeCodeActor")
    \/ \E l \in EmitListeners : AddListener(l)
    \/ \E l \in EmitListeners : RemoveListener(l)
    \/ \E message \in ActorMessages : \E throwing \in SUBSET listeners :
          BusEmit(message, throwing)

SpecEmit == InitBusOnly /\ [][NextEmit]_vars

\* ------------------------------------------------------ stop and abort at work

\* query() / queryStream() from the creation of the AbortController to the
\* call of client.query.
StartEngineCall ==
    /\ Len(engineCalls) < MaxEngineCalls
    /\ controllers' = Append(controllers, FALSE)
    /\ abortController' = Len(controllers) + 1
    /\ engineCalls' = Append(engineCalls,
          [controller |-> Len(controllers) + 1,
           passed |-> EngineController(client, Len(controllers) + 1),
           status |-> "running", inFlightAtStop |-> FALSE])
    /\ UNCHANGED <<client, stops, coreVars, discordVars, busVars, routeVars, raceVars>>

\* The engine call's signal is aborted.
Signalled(c) == c.passed # 0 /\ controllers[c.passed]

\* stop(): aborts the controller the field holds, if any.
Stop ==
    /\ stops < MaxStops
    /\ stops' = stops + 1
    /\ controllers' = IF abortController # 0
                      THEN [controllers EXCEPT ![abortController] = TRUE]
                      ELSE controllers
    /\ engineCalls' = [k \in DOMAIN engineCalls |->
                          IF engineCalls[k].status = "running"
                          THEN [engineCalls[k] EXCEPT !.inFlightAtStop = TRUE]
                          ELSE engineCalls[k]]
    /\ UNCHANGED <<client, abortController, coreVars, discordVars, busVars, routeVars, raceVars>>

\* An engine stream whose signal is not aborted ends: the call returns.
EngineReturns(k) ==
    /\ engineCalls[k].status = "running"
    /\ ~Signalled(engineCalls[k])
    /\ engineCalls' = [engineCalls EXCEPT ![k].status = "returned"]
    /\ UNCHANGED <<client, abortController, controllers, stops, coreVars, discordVars, busVars, routeVars, raceVars>>

\* An engine stream whose signal is aborted raises AbortError: the call
\* throws "Query was aborted".
EngineAborts(k) ==
    /\ engineCalls[k].status = "running"
    /\ Signalled(engineCalls[k])
    /\ engineCalls' = [engineCalls EXCEPT ![k].status = "aborted"]
    /\ UNCHANGED <<client, abortController, controllers, stops, coreVars, discordVars, busVars, routeVars, raceVars>>

InitStopOnly ==
    /\ InitAdapter
    /\ config = SessionConfig(NoSession, FALSE)
    /\ streamingEnabled = "unset"
    /\ busInjected = FALSE
    /\ emitFailure = "none"
    /\ listeners = {}
    /\ InitDiscord
    /\ streamingCfg = DefaultStreamingCfg
    /\ InitBus
    /\ client \in Clients
    /\ InitStop
    /\ InitRoute
    /\ InitRace

NextStop ==
    \/ StartEngineCall
    \/ Stop
    \/ \E k \in DOMAIN engineCalls : EngineReturns(k)
    \/ \E k \in DOMAIN engineCalls : EngineAborts(k)

SpecStop == InitStopOnly /\ [][NextStop]_vars

\* ---------------------------------------------------------- session recovery

\* The engine failures whose message carries one of the session-loss phrases,
\* thrown as an Error.
SessionLossErrors ==
    {e \in EngineErrors :
        /\ e.isError
        /\ e.name = "Error"
        /\ e.message \in {"No conversation found with session ID: s0", "SESSION NOT FOUND"}}

\* The engine failures whose message carries none of the session-loss phrases.
OtherErrors ==
    {e \in EngineErrors :
        e.message \in {"Network error: Connection refused", "The operation was aborted"}}

SessionConfigured(cfg) == cfg.sessionId # NoSession \/ cfg.continueSession

\* The first attempt of the call in progress failed with a session-loss error
\* while a resume or continue session was configured.
FirstAttemptLostSession ==
    /\ call.thrown # << >>
    /\ call.thrown[1] \in SessionLossErrors
    /\ SessionConfigured(call.configAtThrow)

\* C1: when query(), on an adapter configured with a resume session id or with
\* continueSession, gets a session-loss error on its first attempt, the engine
\* is invoked a second time and never a third; the retry runs with
\* isFirstQuery = true, currentSessionId cleared and neither resume nor
\* continue in its options; when the retry succeeds the caller gets the
\* retry's text after exactly two engine invocations.
C1_RetryOnceOnSessionLoss ==
    (call.api = "query" /\ FirstAttemptLostSession) =>
        /\ Len(call.invocations) = 2
        /\ call.invocations[2].isRetry
        /\ call.invocations[2].isFirstQuery
        /\ call.invocations[2].currentSessionId = NoSession
        /\ call.invocations[2].options.resume = NoSession
        /\ ~call.invocations[2].options.continue
        /\ (call.pc = "done" /\ Len(call.thrown) = 1 =>
              /\ call.outcome.kind = "returned"
              /\ call.outcome.text = QueryResult(call.fullResponse, call.toolResults))

\* A resumed query() lost its session, was retried, and the retry returned text.
C1_Witness ==
    /\ call.api = "query"
    /\ FirstAttemptLostSession
    /\ call.configAtThrow.sessionId = ConfiguredSid
    /\ call.pc = "done"
    /\ call.outcome.kind = "returned"
    /\ call.outcome.text = <<"a">>
    /\ Len(call.invocations) = 2

\* C2: a logical call to query() or queryStream() invokes the engine at most
\* twice, whatever the engine throws; when the retry fails too, an error
\* reaches the caller and the engine is not invoked again.
C2_AtMostTwoInvocations ==
    /\ Len(call.invocations) <= 2
    /\ Len(call.thrown) <= 2
    /\ (Len(call.thrown) = 2 =>
          /\ Len(call.invocations) = 2
          /\ call.pc = "done"
          /\ call.outcome.kind = "thrown"
          /\ call.outcome.error.isError)

\* The retry of a queryStream() call failed with a session-loss error again.
C2_Witness ==
    /\ call.api = "queryStream"
    /\ Len(call.thrown) = 2
    /\ call.thrown[1] \in SessionLossErrors
    /\ call.thrown[2] \in SessionLossErrors
    /\ call.outcome.kind = "thrown"

\* C3: when the engine fails with an error whose message matches none of the
\* session-loss phrases, query() has invoked the engine exactly once and an
\* error reaches the caller, under every session configuration.
C3_NoRetryOnOtherError ==
    (call.api = "query" /\ call.thrown # << >> /\ call.thrown[1] \in OtherErrors) =>
        /\ Len(call.invocations) = 1
        /\ Len(call.thrown) = 1
        /\ call.pc = "done"
        /\ call.outcome.kind = "thrown"
        /\ call.outcome.error.isError

\* A resumed query() failed with a network error and was not retried.
C3_Witness ==
    /\ call.api = "query"
    /\ call.thrown # << >>
    /\ call.thrown[1].message = "Network error: Connection refused"
    /\ call.configAtThrow.sessionId = ConfiguredSid
    /\ call.outcome.kind = "thrown"
    /\ call.outcome.error.message = "ClaudeCodeAdapter: Network error: Connection refused"

\* ------------------------------------------------------------ the actor's turn

StreamTypes == {"stream-started", "stream-partial", "stream-completed", "stream-error"}
IsStreamEvent(ev) == ev.type \in StreamTypes
TerminalTypes == {"stream-completed", "stream-error"}

\* The stream-* events emitted for the turn, in order.
StreamEvents == SelectSeq(turn.emitted, IsStreamEvent)

\* C4: handleMessage returns exactly one response per call, of type
\* claude-response or error, for every input message and every engine outcome;
\* it never lets an exception escape.
C4_AlwaysOneResponse ==
    (turn.active /\ call.pc = "done") =>
        /\ turn.response.kind = "response"
        /\ turn.response.type \in {"claude-response", "error"}

\* C5: on the streaming path the events of a turn are stream-started, then
\* stream-partial events, then exactly one terminal event, stream-completed
\* when the engine call returned and stream-error when it threw; nothing
\* follows the terminal event, also when the engine call was retried.
C5_StreamEventOrder ==
    (turn.active /\ turn.canStream) =>
        LET ev == StreamEvents
            n == Len(ev)
        IN /\ n >= 1
           /\ ev[1].type = "stream-started"
           /\ \A i \in 2..n : i < n => ev[i].type = "stream-partial"
           /\ n >= 2 => ev[n].type \in {"stream-partial"} \cup TerminalTypes
           /\ (call.pc # "done" => (n >= 2 => ev[n].type = "stream-partial"))
           /\ (call.pc = "done" =>
                 /\ n >= 2
                 /\ ev[n].type = IF call.outcome.kind = "returned"
                                 THEN "stream-completed" ELSE "stream-error")

\* A streaming turn whose engine call was retried, with a partial emitted by
\* the failed attempt and another by the retry, ended with stream-completed.
C5_Witness ==
    /\ turn.active /\ turn.canStream
    /\ call.pc = "done"
    /\ Len(call.invocations) = 2
    /\ Len(StreamEvents) = 4
    /\ StreamEvents[2].type = "stream-partial"
    /\ StreamEvents[3].type = "stream-partial"
    /\ StreamEvents[4].type = "stream-completed"

IsCompleted(ev) == ev.type = "stream-completed"

\* C6: on a successful streaming turn handleMessage returns a claude-response
\* whose text is the fullText of the one stream-completed event, whether or
\* not a listener is registered on the bus.
C6_FullTextIsResponse ==
    (turn.active /\ turn.canStream /\ call.pc = "done" /\ call.outcome.kind = "returned") =>
        LET done == SelectSeq(turn.emitted, IsCompleted) IN
        /\ turn.response.kind = "response"
        /\ turn.response.type = "claude-response"
        /\ Len(done) = 1
        /\ done[1].text = turn.response.text
        /\ turn.response.text = call.outcome.text

\* A successful streaming turn with tool results and text, nobody listening.
C6_Witness ==
    /\ turn.active /\ turn.canStream
    /\ listeners = {}
    /\ turn.delivered = << >>
    /\ turn.response.type = "claude-response"
    /\ turn.response.text = <<"tool_result", "r", "\n", "a">>

\* ------------------------------------------------------------ stream buffer

Range(f) == {f[i] : i \in DOMAIN f}

\* The pieces of content of the render calls of kind k made for turn id among
\* the first n calls.
Rendered(id, k, n) ==
    UNION {Range(sent[i].content) :
             i \in {j \in 1..n : sent[j].id = id /\ sent[j].kind = k}}

IsInfix(a, b) ==
    \E i \in 0..(Len(b) - Len(a)) : SubSeq(b, i + 1, i + Len(a)) = a

\* C7: handleActorResponse never sends the final text a second time: whenever
\* the synchronous response of a turn whose stream events were handled is
\* processed, the turn is in streamStates or in completedStreamIds, in edit
\* mode as in append mode.
C7_FallbackNeverResends ==
    \A id \in TurnIds :
        /\ fallback[id] # "sent"
        /\ \A i \in DOMAIN sent : ~(sent[i].id = id /\ sent[i].kind = "fallback")

\* C8: in append mode every textDelta and toolChunk a stream-partial delivered
\* is in some flush passed to the thread by the time the handling of
\* stream-completed ends.
C8_AppendLosesNoContent ==
    \A id \in TurnIds :
        (/\ streamingCfg.mode = "append"
         /\ completion[id].handler = "completed"
         /\ completion[id].pc = "finished")
        => Range(partials[id]) \subseteq Rendered(id, "flush", Len(sent))

\* C9: when several textDeltas were buffered under one pending flush timer,
\* the firing of that timer makes one flush that carries their concatenation
\* in the order they arrived.
C9_TimerFlushCarriesBatch ==
    \A id \in TurnIds :
        (lastFire[id].fired /\ Len(lastFire[id].batch) >= 2)
        => (lastFire[id].flushed /\ IsInfix(lastFire[id].batch, lastFire[id].out))

\* C10: stream-completed cancels the turn's pending flush timer and passes what
\* is left in the buffers to the thread before the final text and the done
\* marker; once its handling has begun no flush timer of the turn is pending.
C10_CompletionCancelsAndFlushes ==
    \A id \in TurnIds :
        completion[id].handler = "completed"
        => /\ \A o \in DOMAIN objs[id] : ~objs[id][o].timer
           /\ \A i \in DOMAIN sent :
                 (sent[i].id = id /\ sent[i].kind \in {"final", "done"})
                 => completion[id].residual \subseteq Rendered(id, "flush", i - 1)

\* C11: stream-error cancels the turn's pending flush timer and discards its
\* buffers: what was buffered and not yet passed to the thread when the error
\* arrived is in no later render call; the abort notice is sent (when abort
\* notices are shown) and the turn enters completedStreamIds.
C11_ErrorDiscardsBuffers ==
    \A id \in TurnIds :
        completion[id].handler = "error"
        => LET unflushed == completion[id].residual
                              \ Rendered(id, "flush", completion[id].sentAt)
           IN /\ \A o \in DOMAIN objs[id] : ~objs[id][o].timer
              /\ \A i \in DOMAIN sent :
                    (i > completion[id].sentAt /\ sent[i].id = id)
                    => Range(sent[i].content) \cap unflushed = {}
              /\ (completion[id].pc = "finished" /\ streamingCfg.showAbort)
                    => \E i \in DOMAIN sent : sent[i].id = id /\ sent[i].kind = "abort"
              /\ (completion[id].pc = "finished" /\ ttlTimers[id] > 0)
                    => id \in completedStreamIds

\* ------------------------------------------------------------ the message bus

\* The names the registry holds.
Names(reg) == {reg[i].name : i \in DOMAIN reg}

\* C12: a send whose `to` names no registered actor returns null in the step
\* that makes the call: it does not reject, invokes no handler, and leaves
\* the actor registry and the listener set as they were, whatever register
\* and unregister calls came before.
C12_SendUnknownReturnsNull ==
    [][(/\ busCall'.no = busCall.no + 1
        /\ busCall'.op = "send"
        /\ busCall'.message.to \notin Names(actors))
       => (/\ busCall'.pc = "done"
           /\ busCall'.outcome = "null"
           /\ busCall'.invoked = << >>
           /\ actors' = actors
           /\ listeners' = listeners)]_vars

\* A send to a name that is absent from a registry that holds other actors,
\* after an actor was registered and one was removed or replaced, has returned.
C12_Witness ==
    /\ busCall.op = "send"
    /\ busCall.pc = "done"
    /\ busCall.outcome = "null"
    /\ busCall.message.to \notin Names(busCall.actorsAtCall)
    /\ busCall.actorsAtCall # << >>
    /\ registered > Len(busCall.actorsAtCall)
    /\ actors = busCall.actorsAtCall

\* The entries a broadcast is due to reach: those registered when it was
\* called, the sender's own left out.
Recipients(c) ==
    {i \in DOMAIN c.actorsAtCall : c.actorsAtCall[i].name # c.message.from}

\* C13: a broadcast made on a registry that no one changes meanwhile returns;
\* it has invoked handleMessage once on every registered actor but the one
\* named in message.from, and on no other, each with `to` set to the
\* recipient's name; what it returns is the non-null responses, in the order
\* in which their actors were registered.
C13_BroadcastReachesAllInOrder ==
    (busCall.op = "broadcast" /\ busCall.pc = "done" /\ ~busCall.registryChanged)
    => /\ busCall.outcome = "responses"
       /\ Len(busCall.invoked) = Cardinality(Recipients(busCall))
       /\ \A i \in Recipients(busCall) :
             \E k \in DOMAIN busCall.invoked :
                busCall.invoked[k].actor = busCall.actorsAtCall[i]
       /\ \A k \in DOMAIN busCall.invoked :
             /\ busCall.invoked[k].actor.name # busCall.message.from
             /\ busCall.invoked[k].message =
                   [busCall.message EXCEPT !.to = busCall.invoked[k].actor.name]
       /\ Range(busCall.responses) =
             {busCall.actorsAtCall[i] : i \in
                 {j \in Recipients(busCall) :
                     HandleMessageOutcome(busCall.actorsAtCall[j].cls, busCall.message)
                        = "response"}}
       /\ \A j, k \in DOMAIN busCall.responses :
             j < k => busCall.responses[j].stamp < busCall.responses[k].stamp

\* ------------------------------------------------- session options and abort

\* C14: when query() or queryStream() has ended (returned, thrown from the
\* first attempt or from the retry, or been abandoned by its consumer),
\* config.sessionId and config.continueSession are what they were when the
\* call was made.
C14_ConfigRestoredAfterCall ==
    (call.pc = "done" /\ call.invocations # << >>)
    => config = call.configAtStart

\* C15: the first engine call of the first query of an adapter constructed
\* with config.sessionId carries resume = that session id, and the first
\* engine call of every later query carries continue.
C15_ResumeThenContinue ==
    call.invocations # << >>
    => LET first == call.invocations[1] IN
       /\ (callNo = 1 /\ call.configAtStart.sessionId # NoSession)
             => first.options.resume = call.configAtStart.sessionId
       /\ callNo > 1 => first.options.continue

HasSessionHint(options) == options.continue \/ options.resume # NoSession

\* C17: when the first engine call of a query()/queryStream() has failed with
\* a session-loss error, a second engine call (the retry) is made exactly
\* when the options of the first carried resume or continue.
C17_RetryIffHintCarried ==
    (call.thrown # << >> /\ call.thrown[1] \in SessionLossErrors)
    => (Len(call.invocations) = 2 <=> HasSessionHint(call.invocations[1].options))

\* C18: in the step in which a query() or queryStream() completes
\* successfully, isFirstQuery is false, whatever messages the engine stream
\* was made of; and when that stream reported a session id, currentSessionId
\* is the one it reported last.
C18_SuccessEndsFirstQuery ==
    [][(call.pc # "done" /\ call'.pc = "done" /\ call'.outcome.kind = "returned")
       => (/\ ~isFirstQuery'
           /\ call'.reported # NoSession => currentSessionId' = call'.reported)]_vars

\* C19: every engine call that was in flight when stop() was called has had
\* its abort signalled, two overlapping calls included, and does not end
\* other than with the abort error.
C19_StopAbortsEveryCallInFlight ==
    \A k \in DOMAIN engineCalls :
        engineCalls[k].inFlightAtStop
        => /\ Signalled(engineCalls[k])
           /\ engineCalls[k].status \in {"running", "aborted"}

\* The value thrown is an AbortError.
IsAbortError(e) == e.isError /\ e.name = "AbortError"

\* C20: an AbortError raised by an engine call of query(), the first or the
\* retry, is followed by no further engine call, and the call ends by
\* throwing the abort error "Query was aborted".
C20_AbortReachesCaller ==
    \A k \in DOMAIN call.thrown :
        (call.api = "query" /\ IsAbortError(call.thrown[k]))
        => /\ Len(call.invocations) = k
           /\ call.pc = "done"
           /\ call.outcome.kind = "thrown"
           /\ call.outcome.error = AbortedError

\* ------------------------------------------------------- the actor's replies

\* C21: handleMessage on a message whose payload is there and has no text
\* returns, in the step that makes the call, an error response addressed to
\* message.from: no engine call is made, isFirstQuery, currentSessionId and
\* the configuration stay as they were, and nothing is emitted on the bus.
C21_NoTextAnsweredAtOnce ==
    [][(/\ callNo' = callNo + 1
        /\ turn'.active
        /\ turn'.payload.present
        /\ turn'.payload.text = << >>)
       => (/\ turn'.response.kind = "response"
           /\ turn'.response.type = "error"
           /\ turn'.response.to = turn'.from
           /\ turn'.emitted = << >>
           /\ call'.pc = "done"
           /\ call'.invocations = << >>
           /\ UNCHANGED adapterVars)]_vars

\* The second message of a run, sent by the user actor, has no text and has
\* been answered with the error; the session of the first turn is still there.
C21_Witness ==
    /\ turn.active
    /\ callNo = 2
    /\ turn.from = "user"
    /\ turn.payload.present /\ turn.payload.text = << >>
    /\ turn.response.error = "No text provided for Claude"
    /\ turn.response.to = "user"
    /\ ~isFirstQuery
    /\ currentSessionId = "s1"
    /\ busInjected /\ listeners # {}

IsStreamError(ev) == ev.type = "stream-error"

\* C22: when the engine call of a streaming turn has thrown, the actor has
\* emitted exactly one stream-error event, marked fatal, and returned an
\* error response; both carry the message of the exception query() threw,
\* and no stream-completed was emitted for the turn.
C22_EngineFailureReported ==
    (turn.active /\ turn.canStream /\ call.pc = "done" /\ call.outcome.kind = "thrown")
    => LET errors == SelectSeq(turn.emitted, IsStreamError) IN
       /\ Len(errors) = 1
       /\ errors[1].fatal
       /\ errors[1].message = call.outcome.error.message
       /\ turn.response.kind = "response"
       /\ turn.response.type = "error"
       /\ turn.response.error = call.outcome.error.message
       /\ SelectSeq(turn.emitted, IsCompleted) = << >>

\* A streaming turn whose engine call failed after a partial was emitted, and
\* whose retry failed as well.
C22_Witness ==
    /\ turn.active /\ turn.canStream
    /\ call.pc = "done" /\ call.outcome.kind = "thrown"
    /\ Len(call.invocations) = 2
    /\ \E i \in DOMAIN turn.emitted : turn.emitted[i].type = "stream-partial"
    /\ turn.response.type = "error"
    /\ turn.response.error = call.outcome.error.message

\* C23: a turn on a bus whose emit rejects, whatever the type of event it
\* rejects on, still queries the engine, and its response is the engine's
\* outcome: the text query() returned, or the message of what it threw.
C23_EmitFailureNeverAbortsTurn ==
    (turn.active /\ turn.payload.present /\ turn.payload.text # << >> /\ call.pc = "done")
    => /\ call.invocations # << >>
       /\ turn.response.kind = "response"
       /\ call.outcome.kind = "returned"
             => /\ turn.response.type = "claude-response"
                /\ turn.response.text = call.outcome.text
       /\ call.outcome.kind = "thrown"
             => /\ turn.response.type = "error"
                /\ turn.response.error = call.outcome.error.message

\* C24: the first engine call of a query made in the session state that
\* resetSession() leaves (isFirstQuery true, no current session id) carries
\* neither resume nor continue, whatever the adapter's configuration.
C24_FreshSessionAfterReset ==
    [][(/\ callNo' = callNo + 1
        /\ call'.invocations # << >>
        /\ isFirstQuery
        /\ currentSessionId = NoSession)
       => ~HasSessionHint(call'.invocations[1].options)]_vars

\* C25: when the assistant's response to a turn is error-typed and no
\* stream-error was handled for the turn, the DiscordAdapter has sent
\* something for the turn once handleActorResponse has processed the response.
C25_ErrorResponseExternalized ==
    \A id \in TurnIds :
        fallback[id] = "errorResponse" => \E i \in DOMAIN sent : sent[i].id = id

\* ------------------------------------------------------ emit and the registry

\* C26: an emit returns without failing; it has invoked every listener that
\* was registered when it was called exactly once, whichever of them threw,
\* has invoked no other listener and no actor's handleMessage, and has left
\* the registry and the listeners as they were.
C26_EmitReachesEveryListener ==
    [][(busCall'.no = busCall.no + 1 /\ busCall'.op = "emit")
       => /\ busCall'.pc = "done"
          /\ busCall'.outcome = "void"
          /\ \A l \in EmitListeners :
                busCall'.delivered[l] = IF l \in listeners THEN 1 ELSE 0
          /\ busCall'.invoked = << >>
          /\ UNCHANGED <<actors, listeners>>]_vars

\* An emit to three listeners of which one threw, on a bus with an actor.
C26_Witness ==
    /\ busCall.op = "emit"
    /\ busCall.pc = "done"
    /\ Cardinality(listeners) = 3
    /\ Cardinality(busCall.threw) = 1
    /\ actors # << >>

\* C27: the registry never holds two actors under one name; a register call
\* leaves its actor in the registry and none of the actors that were there
\* under the same name; every handleMessage call of send and broadcast goes to
\* an actor that is in the registry at that moment; and unregister of a name
\* that is absent changes neither the registry nor the listeners nor a call
\* in flight.
C27_RegisterReplaces ==
    /\ [](\A i, j \in DOMAIN actors : actors[i].name = actors[j].name => i = j)
    /\ [][registered' = registered + 1
          => \E i \in DOMAIN actors' :
                /\ actors'[i].stamp = registered'
                /\ \A j \in DOMAIN actors :
                      actors[j].name = actors'[i].name
                         => \A k \in DOMAIN actors' : actors'[k] # actors[j]]_vars
    /\ [][Len(busCall'.invoked) > Len(busCall.invoked)
          => \E i \in DOMAIN actors :
                actors[i] = busCall'.invoked[Len(busCall'.invoked)].actor]_vars
    /\ [][\A name \in ActorNames :
            (Unregister(name) /\ Get(actors, name) = 0)
               => UNCHANGED <<actors, listeners, busCall>>]_vars

\* A broadcast has reached an actor that took the place of an earlier one: it
\* stands in the registry ahead of an actor registered before it.
C27_Witness ==
    /\ busCall.op = "broadcast"
    /\ busCall.pc = "done"
    /\ \E i, j \in DOMAIN actors :
          /\ i < j
          /\ actors[i].stamp > actors[j].stamp
          /\ \E k \in DOMAIN busCall.invoked : busCall.invoked[k].actor = actors[i]

\* C28: a startAll or stopAll made on a registry that no one changes
\* meanwhile calls start / stop on the registered actors in the order in which
\* they were registered; when every call resolved it has called all of them
\* and returns; and a start that fails makes startAll fail.
C28_LifecycleInRegistrationOrder ==
    /\ []((busCall.op \in {"startAll", "stopAll"} /\ ~busCall.registryChanged)
          => /\ \A j, k \in DOMAIN busCall.started :
                   j < k => busCall.started[j].stamp < busCall.started[k].stamp
             /\ (busCall.pc = "done" /\ busCall.outcome = "void")
                   => Range(busCall.started) = Range(busCall.actorsAtCall))
    /\ [][(LifecycleSettles(FALSE) /\ busCall.op = "startAll")
          => busCall'.pc = "done" /\ busCall'.outcome = "throws"]_vars

\* ------------------------------------------------------------------ routing

\* A piece of the text is one of the words, in whatever case.
HasWord(text, words) == \E i \in DOMAIN text : text[i] \in words

RetriedAsQuery(c) ==
    /\ c.thrown # << >>
    /\ c.thrown[1] \in SessionLossErrors
    /\ SessionConfigured(c.configAtStart)

\* C30: a call of queryStream that ends has made the engine invocations, with
\* the options, that query() makes for the same engine behaviour, and leaves
\* the session state query() leaves: one invocation, or two when the first
\* threw a session-loss error with a session configured, the second with
\* neither resume nor continue; the configuration as it was at the start; the
\* session id the engine reported last, none after a retry that reported
\* none; and isFirstQuery true only if it was at the start or a retry was made.
C30_StreamRecoversAsQuery ==
    [][(call.pc # "done" /\ call'.pc = "done" /\ call'.invocations # << >>)
       => LET c == call'
              first == c.invocations[1]
              retried == RetriedAsQuery(c)
          IN /\ c.invocations =
                   IF retried
                   THEN <<first, Invocation([c.configAtStart EXCEPT
                                                !.sessionId = NoSession,
                                                !.continueSession = FALSE],
                                            TRUE, NoSession, TRUE)>>
                   ELSE <<first>>
             /\ first.options = BuildOptions(c.configAtStart, first.isFirstQuery)
             /\ config' = c.configAtStart
             /\ currentSessionId' = IF c.reported # NoSession THEN c.reported
                                    ELSE IF retried THEN NoSession
                                    ELSE first.currentSessionId
             /\ isFirstQuery' => (retried \/ first.isFirstQuery)]_vars

\* ------------------------------------------------------- options of a call

\* C31: every engine invocation of a call, the retry after a session loss
\* included, carries the permissionMode, the model and the maxTurns of the
\* configuration the adapter had when the call was made.
C31_SettingsInEveryInvocation ==
    \A i \in DOMAIN call.invocations :
        LET o == call.invocations[i].options IN
        /\ o.permissionMode = call.configAtStart.claudePermissionMode
        /\ o.model = call.configAtStart.model
        /\ o.maxTurns = call.configAtStart.maxTurns

\* A call configured with permissionMode "ask" has made its retry.
C31_Witness ==
    /\ Len(call.invocations) = 2
    /\ call.invocations[2].isRetry
    /\ call.configAtStart.claudePermissionMode = "ask"
    /\ call.invocations[2].options.permissionMode = "ask"

\* ------------------------------------------------- stream states of a turn

\* The content in the buffers of state object o of the turn.
InBuffers(os, id, o) ==
    (Range(os[id][o].buffer) \cup Range(os[id][o].toolBuffer)) \ {NL}

\* C32: the textDelta or toolChunk of every stream-partial handled for a turn
\* is, when the handler returns, in the buffers of the state streamStates
\* holds for the turn, also when the turn had no state before; and a state
\* that takes the place of another in streamStates leaves no content behind
\* in the buffers of the one it replaces.
C32_PartialNeverDropped ==
    /\ [][\A id \in TurnIds :
            Len(partials'[id]) > Len(partials[id])
            => /\ streamStates'[id] # 0
               /\ partials'[id][Len(partials'[id])]
                     \in InBuffers(objs', id, streamStates'[id])]_vars
    /\ [][\A id \in TurnIds :
            (streamStates[id] # 0 /\ streamStates'[id] # 0
                /\ streamStates'[id] # streamStates[id])
            => InBuffers(objs, id, streamStates[id]) = {}]_vars

\* The state objects of the turn whose flush timer is pending.
PendingTimers(os, id) == {o \in DOMAIN os[id] : os[id][o].timer}

\* C33: a turn has at most one flush timer pending; a stream-partial handled
\* while one is pending leaves the pending timers as they are, and one
\* handled while none is pending, for a turn that has a state, leaves exactly
\* one pending.
C33_OnePendingTimer ==
    /\ [](\A id \in TurnIds : Cardinality(PendingTimers(objs, id)) <= 1)
    /\ [][\A id \in TurnIds :
            Len(partials'[id]) > Len(partials[id])
            => /\ PendingTimers(objs, id) # {}
                  => PendingTimers(objs', id) = PendingTimers(objs, id)
               /\ (PendingTimers(objs, id) = {} /\ streamStates'[id] # 0)
                  => Cardinality(PendingTimers(objs', id)) = 1]_vars

\* A stream event of the turn is handled in this step: stream-started and the
\* terminal events move its phase, stream-partial adds to its partials.
StreamEventOf(id) == phase'[id] # phase[id] \/ partials'[id] # partials[id]

\* C34: a stream event of one turn leaves every other turn's state objects
\* (buffers, timer), its entry in streamStates and its membership in
\* completedStreamIds as they are, and whatever is sent for a turn carries
\* content of that turn's partials only.
C34_OtherTurnsUntouched ==
    /\ [][\A a \in TurnIds : \A b \in TurnIds \ {a} :
            StreamEventOf(a)
            => /\ objs'[b] = objs[b]
               /\ streamStates'[b] = streamStates[b]
               /\ (b \in completedStreamIds') = (b \in completedStreamIds)]_vars
    /\ [](\A i \in 1..Len(sent) : \A tk \in Range(sent[i].content) :
            tk.id # "" => tk.id = sent[i].id)

\* One turn has ended and flushed its text while the other is still
\* streaming with text in its buffers and its flush timer pending.
C34_Witness ==
    /\ phase["m1"] = "ended"
    /\ "m1" \in completedStreamIds
    /\ \E i \in 1..Len(sent) : sent[i].id = "m1" /\ sent[i].kind = "flush"
    /\ phase["m2"] = "streaming"
    /\ streamStates["m2"] # 0
    /\ InBuffers(objs, "m2", streamStates["m2"]) # {}
    /\ PendingTimers(objs, "m2") # {}

\* C35: once the handler of stream-completed or stream-error of a turn has
\* finished, streamStates holds no entry for the turn, whatever the order in
\* which a placeholder post still awaited by onStreamStarted settles.
C35_NoStateAfterTerminal ==
    \A id \in TurnIds : completion[id].pc = "finished" => streamStates[id] = 0

\* The handler a send or a broadcast awaits is one that throws.
ThrowingHandler ==
    /\ busCall.pc = "awaiting"
    /\ HandleMessageOutcome(busCall.current.cls,
                            busCall.invoked[Len(busCall.invoked)].message) = "throws"

\* C36: while a send or a broadcast awaits a handler that throws, the call
\* invokes no further handler, and when it settles it is rejected with what
\* the handler threw, in a step that leaves the registry and the listener
\* set as they are; on a registry no one else changed meanwhile, that is the
\* registry the call was made on.
C36_HandlerErrorPropagates ==
    [][ThrowingHandler
       => \/ /\ busCall'.pc = "awaiting"
             /\ busCall'.invoked = busCall.invoked
          \/ /\ busCall'.pc = "done"
             /\ busCall'.outcome = "throws"
             /\ busCall'.invoked = busCall.invoked
             /\ busCall'.responses = busCall.responses
             /\ actors' = actors
             /\ listeners' = listeners
             /\ ~busCall.registryChanged => actors' = busCall.actorsAtCall]_vars

\* A broadcast was rejected by the handler of its second recipient, after
\* the first one answered null, with a third actor registered behind it and
\* a listener on the bus.
C36_Witness ==
    /\ busCall.op = "broadcast"
    /\ busCall.pc = "done"
    /\ busCall.outcome = "throws"
    /\ Len(busCall.invoked) = 2
    /\ Len(actors) = 3
    /\ busCall.pos = 2
    /\ listeners # {}

\* C37: preflightChecked, once set, stays set; a failing call runs the CLI
\* presence probe at most once, only while preflightChecked is not set, which
\* it then sets, and only for a message shouldRunPreflight accepts; nothing
\* else sets preflightChecked.
C37_PreflightAtMostOnce ==
    /\ [][preflightChecked => preflightChecked']_vars
    /\ [][(call.pc = "awaiting" /\ call'.pc = "done" /\ call'.outcome.kind = "thrown")
          => LET probes == PreflightProbes(preflightChecked,
                                           call'.thrown[Len(call'.thrown)], call)
             IN /\ Len(probes) <= 1
                /\ probes # << >> => /\ ~preflightChecked
                                     /\ preflightChecked'
                                     /\ ShouldRunPreflight(probes[1])
                /\ preflightChecked' # preflightChecked => probes # << >>]_vars
    /\ [][preflightChecked' # preflightChecked
          => (call.pc = "awaiting" /\ call'.pc = "done" /\ call'.outcome.kind = "thrown")]_vars

\* The second call on the adapter failed after a failed retry, and both the
\* retry's error and the first one are messages shouldRunPreflight accepts.
C37_Witness ==
    /\ callNo = 2
    /\ call.pc = "done"
    /\ call.outcome.kind = "thrown"
    /\ call.isRetry
    /\ Len(call.thrown) = 2
    /\ ShouldRunPreflight(call.thrown[1].message)
    /\ ShouldRunPreflight(call.thrown[2].message)
    /\ preflightChecked

\* C38: no piece of buffered content goes out in more than one flush: two
\* flush renders of a turn have no partial's text in common, also when the
\* second flush starts while the render call of the first is still awaited.
C38_NoContentFlushedTwice ==
    \A i \in 1..Len(sent) : \A j \in 1..Len(sent) :
        (i < j /\ sent[i].kind = "flush" /\ sent[j].kind = "flush"
               /\ sent[i].id = sent[j].id)
        => {tk \in Range(sent[i].content) : tk.id # ""}
              \cap Range(sent[j].content) = {}

\* C39: a text that is no command, taken by DiscordAdapter.handleMessage, is
\* sent on over the bus exactly once, to a name an actor is registered under:
\* whichever of debug, auto-responder and assistant the routing names.
C39_EveryTextReachesAnActor ==
    (route.kind = "discord" /\ ~IsCommand(route.text))
    => /\ route.to \in {"debug", "auto-responder", "assistant"}
       /\ route.sends = 1
       /\ route.handled

\* C40: of the query() calls in flight together on an adapter configured
\* with a sessionId, each one whose first engine call threw an Error with a
\* session-loss message has made its retry, and made it once.
C40_EachSessionLossRetried ==
    \A k \in CallIds :
        (/\ inflight[k].thrown # << >>
         /\ inflight[k].thrown[1].isError
         /\ inflight[k].thrown[1].name # "AbortError"
         /\ IsSessionNotFound(inflight[k].thrown[1]))
        => /\ inflight[k].isRetry
           /\ Len(inflight[k].invocations) = 2

====
